---------------------------- MODULE Spec2Model ----------------------------
(***************************************************************************)
(* Employee SWOT scoring and categorization: the CSV-only validator        *)
(* (validate_swot_analysis.py), the dashboard verifier                     *)
(* (verify_dashboard_data.py), the basic trainer (train_mltk_models.py)    *)
(* and the enhanced trainer (enhanced_train_mltk_models.py).               *)
(*                                                                         *)
(* Numbers.  Scores are rounded to 2 decimals in the code; they are kept   *)
(* here as integers in hundredths (2.33 is 233).  Employee_Satisfaction_   *)
(* Score is read in hundredths as well; every other raw attribute is an    *)
(* integer.  Percentile cutoffs are linear interpolations at the fractions *)
(* 1/4 and 3/4 and are kept in quarter-hundredths (score * 4), so that the *)
(* interpolation is exact.  Percentages are kept in tenths of a percent.   *)
(* Arithmetic is exact rational arithmetic; rounding is round-half-even.   *)
(* NaN (pandas' missing value) is the value NaN below; every comparison    *)
(* with it is false, as in IEEE arithmetic.                                *)
(*                                                                         *)
(* Library calls (KMeans, IsolationForest, LogisticRegression and the      *)
(* scalers) are external: a call returns an arbitrary value of its result  *)
(* type (a label in 0..k-1, a score, a probability).                       *)
(***************************************************************************)
EXTENDS Integers, Sequences, FiniteSets, TLC

VARIABLES program, pc, df, columns, resigned_dtype, analysis, swot_thresholds,
          swot_mapping, models, scalers, insights, saved, error

vars == <<program, pc, df, columns, resigned_dtype, analysis, swot_thresholds,
          swot_mapping, models, scalers, insights, saved, error>>

(***************************************************************************)
(* Bounds of the model.                                                    *)
(***************************************************************************)
MaxEmployees == 2      \* rows of the CSV read by the validator
MaxRows == 2           \* rows of the table read by the verifier and the enhanced trainer
MaxExtraRows == 0      \* rows the basic trainer reads beyond one per cluster

(***************************************************************************)
(* Numeric primitives.                                                     *)
(***************************************************************************)
NaN == 0 - 999999

IsNaN(x) == x = NaN

\* round(num / den) to the nearest integer, ties to the even one (den > 0)
RoundHalfEven(num, den) ==
    LET q == num \div den
        r == num % den
    IN  IF 2 * r < den THEN q
        ELSE IF 2 * r > den THEN q + 1
        ELSE IF q % 2 = 0 THEN q ELSE q + 1

\* Series.clip(lo, hi) followed by .round(2), on the rational num / den,
\* with lo and hi in hundredths
ClipRound(num, den, lo, hi) ==
    IF num * 100 < lo * den THEN lo
    ELSE IF num * 100 > hi * den THEN hi
    ELSE RoundHalfEven(num * 100, den)

Ge(a, b) == (~IsNaN(a)) /\ (~IsNaN(b)) /\ a >= b
Le(a, b) == (~IsNaN(a)) /\ (~IsNaN(b)) /\ a <= b
Gt(a, b) == (~IsNaN(a)) /\ (~IsNaN(b)) /\ a > b
Lt(a, b) == (~IsNaN(a)) /\ (~IsNaN(b)) /\ a < b

RECURSIVE SumSeq(_)
SumSeq(s) == IF s = <<>> THEN 0 ELSE Head(s) + SumSeq(Tail(s))

RECURSIVE InsertSorted(_, _)
InsertSorted(x, s) ==
    IF s = <<>> THEN <<x>>
    ELSE IF x <= Head(s) THEN <<x>> \o s
    ELSE <<Head(s)>> \o InsertSorted(x, Tail(s))

RECURSIVE SortAsc(_)
SortAsc(s) == IF s = <<>> THEN <<>> ELSE InsertSorted(Head(s), SortAsc(Tail(s)))

RECURSIVE DropNaN(_)
DropNaN(s) ==
    IF s = <<>> THEN <<>>
    ELSE IF IsNaN(Head(s)) THEN DropNaN(Tail(s))
    ELSE <<Head(s)>> \o DropNaN(Tail(s))

Column(d, name) == [i \in 1..Len(d) |-> d[i][name]]

\* linear-interpolation quantile at the fraction num/den of the sorted
\* values, NaN skipped; the result is in units of 1/den of the values' unit
\* (NaN for an empty series)
quantile_at(values, num, den) ==
    LET v == SortAsc(DropNaN(values))
        n == Len(v)
        pos == (n - 1) * num
        lo == pos \div den
        fr == pos % den
    IN  IF n = 0 THEN NaN
        ELSE IF fr = 0 THEN den * v[lo + 1]
        ELSE den * v[lo + 1] + fr * (v[lo + 2] - v[lo + 1])

\* Series.quantile(k/4), in quarters of the values' unit
quantile(values, k) == quantile_at(values, k, 4)

(***************************************************************************)
(* Feature derivation, basic formulas.                                     *)
(***************************************************************************)
\* variant: the sum without the satisfaction term
basic_productivity_no_satisfaction(e) ==
    RoundHalfEven(2000 * e.Performance_Score + 25 * e.Work_Hours_Per_Week
                  + 100 * e.Projects_Handled + 20 * e.Training_Hours
                  - 200 * e.Sick_Days, 60)

\* (perf*2 + hours/40 + projects/10 + training/50 - sick/5 + sat/5) / 6
basic_productivity(e) ==
    RoundHalfEven(2000 * e.Performance_Score + 25 * e.Work_Hours_Per_Week
                  + 100 * e.Projects_Handled + 20 * e.Training_Hours
                  - 200 * e.Sick_Days + 2 * e.Employee_Satisfaction_Score, 60)

\* (sat + training/10 + promotions*2 - sick*0.5) / 4
basic_engagement(e) ==
    RoundHalfEven(e.Employee_Satisfaction_Score + 10 * e.Training_Hours
                  + 200 * e.Promotions - 50 * e.Sick_Days, 4)

\* (sick + overtime/10 + penalty + (5 - perf) - sat) / 5, penalty in units
basic_risk(e, penalty) ==
    IF IsNaN(penalty) THEN NaN
    ELSE RoundHalfEven(100 * e.Sick_Days + 10 * e.Overtime_Hours + 100 * penalty
                       + 100 * (5 - e.Performance_Score)
                       - e.Employee_Satisfaction_Score, 5)


(***************************************************************************)
(* validate_swot_analysis.py                                               *)
(***************************************************************************)
Categories == {"Strength", "Weakness", "Opportunity", "Threat"}

Departments == {"Engineering", "Sales"}

\* fixed cutoffs of the validator and of the dashboard verifier, hundredths
HighScoreCutoff == 350
LowScoreCutoff == 250
LowRiskCutoff == 200
HighRiskCutoff == 400
ResignedPenalty == 5
TopPerformerCutoff == 400

\* Raw rows the model reads.  Satisfaction is in hundredths.  "defect" says
\* what is wrong with the CSV row: "none", or "nonnumeric" (a numeric field
\* holds text, so float() raises ValueError).
BaseRow == [Performance_Score |-> 5, Work_Hours_Per_Week |-> 40,
            Projects_Handled |-> 10, Training_Hours |-> 50, Sick_Days |-> 0,
            Employee_Satisfaction_Score |-> 500, Overtime_Hours |-> 0,
            Promotions |-> 0, Resigned |-> FALSE, Remote_Work_Frequency |-> 0,
            Years_At_Company |-> 2, defect |-> "none"]

ValidateProfiles ==
    { BaseRow,
      [BaseRow EXCEPT !.Projects_Handled = 100, !.Training_Hours = 100],
      [BaseRow EXCEPT !.Projects_Handled = 50, !.Training_Hours = 80],
      [BaseRow EXCEPT !.Projects_Handled = 50, !.Training_Hours = 80,
                      !.Overtime_Hours = 200, !.Resigned = TRUE],
      [BaseRow EXCEPT !.Projects_Handled = 100, !.Training_Hours = 80],
      [BaseRow EXCEPT !.defect = "nonnumeric"],
      [BaseRow EXCEPT !.defect = "absent_key"],
      [BaseRow EXCEPT !.defect = "absent_key_performance"],
      [BaseRow EXCEPT !.defect = "absent_value"] }

MakeRow(i, profile, dept) ==
    profile @@ [Employee_ID |-> i, Department |-> dept]

\* The defects of a row as csv.DictReader hands it over: "nonnumeric", a
\* field that float() cannot convert (ValueError); "absent_key", the header
\* lacks a column only calculate_scores reads (KeyError);
\* "absent_key_performance", the header lacks Performance_Score (KeyError);
\* "absent_value", the row is shorter than the header and the field is None
\* (float(None) is a TypeError, None.strip() an AttributeError).
Defects == {"none", "nonnumeric", "absent_key", "absent_key_performance",
            "absent_value"}

\* calculate_scores: the three scores, or the neutral (0, 0, 0) when the
\* except clause catches a ValueError or a KeyError; "raised" is the
\* exception that leaves the function
calculate_scores(employee) ==
    IF employee.defect = "absent_value"
    THEN [productivity |-> 0, engagement |-> 0, risk |-> 0, raised |-> "TypeError"]
    ELSE IF employee.defect \in {"nonnumeric", "absent_key", "absent_key_performance"}
    THEN [productivity |-> 0, engagement |-> 0, risk |-> 0, raised |-> "none"]
    ELSE [productivity |-> basic_productivity(employee),
          engagement |-> basic_engagement(employee),
          risk |-> basic_risk(employee,
                     IF employee.Resigned THEN ResignedPenalty ELSE 0),
          raised |-> "none"]

\* variant: the rules without the closing else (the function falls off its
\* end and returns None)
assign_swot_category_no_default(productivity_score, engagement_score, risk_score) ==
    IF productivity_score >= HighScoreCutoff /\ engagement_score >= HighScoreCutoff
       /\ risk_score <= LowRiskCutoff
    THEN "Strength"
    ELSE IF productivity_score < LowScoreCutoff \/ engagement_score < LowScoreCutoff
            \/ risk_score >= HighRiskCutoff
    THEN "Threat"
    ELSE IF (productivity_score >= LowScoreCutoff /\ productivity_score < HighScoreCutoff)
            /\ (engagement_score >= LowScoreCutoff /\ engagement_score < HighScoreCutoff)
    THEN "Weakness"
    ELSE "None"

\* variant: the mid-band Weakness rule tried before the Threat rule
assign_swot_category_weakness_first(productivity_score, engagement_score, risk_score) ==
    IF productivity_score >= HighScoreCutoff /\ engagement_score >= HighScoreCutoff
       /\ risk_score <= LowRiskCutoff
    THEN "Strength"
    ELSE IF (productivity_score >= LowScoreCutoff /\ productivity_score < HighScoreCutoff)
            /\ (engagement_score >= LowScoreCutoff /\ engagement_score < HighScoreCutoff)
    THEN "Weakness"
    ELSE IF productivity_score < LowScoreCutoff \/ engagement_score < LowScoreCutoff
            \/ risk_score >= HighRiskCutoff
    THEN "Threat"
    ELSE "Opportunity"

\* variant: the Threat rule asks for a risk above 4, not at least 4
assign_swot_category_risk_above(productivity_score, engagement_score, risk_score) ==
    IF productivity_score >= HighScoreCutoff /\ engagement_score >= HighScoreCutoff
       /\ risk_score <= LowRiskCutoff
    THEN "Strength"
    ELSE IF productivity_score < LowScoreCutoff \/ engagement_score < LowScoreCutoff
            \/ risk_score > HighRiskCutoff
    THEN "Threat"
    ELSE IF (productivity_score >= LowScoreCutoff /\ productivity_score < HighScoreCutoff)
            /\ (engagement_score >= LowScoreCutoff /\ engagement_score < HighScoreCutoff)
    THEN "Weakness"
    ELSE "Opportunity"

assign_swot_category(productivity_score, engagement_score, risk_score) ==
    IF productivity_score >= HighScoreCutoff /\ engagement_score >= HighScoreCutoff
       /\ risk_score <= LowRiskCutoff
    THEN "Strength"
    ELSE IF productivity_score < LowScoreCutoff \/ engagement_score < LowScoreCutoff
            \/ risk_score >= HighRiskCutoff
    THEN "Threat"
    ELSE IF (productivity_score >= LowScoreCutoff /\ productivity_score < HighScoreCutoff)
            /\ (engagement_score >= LowScoreCutoff /\ engagement_score < HighScoreCutoff)
    THEN "Weakness"
    ELSE "Opportunity"

\* the value the defaultdict's factory makes for a department not seen yet
NewDepartment ==
    [total |-> 0, strengths |-> 0, weaknesses |-> 0, opportunities |-> 0,
     threats |-> 0, avg_productivity |-> <<>>, avg_engagement |-> <<>>,
     avg_risk |-> <<>>]

NewAnalysis(employees) ==
    [total_employees |-> Len(employees),
     swot_distribution |-> [c \in {} |-> 0],
     department_analysis |-> [d \in {} |-> NewDepartment],
     department_order |-> <<>>,
     high_risk_employees |-> <<>>,
     top_performers |-> <<>>,
     score_distributions |-> [productivity |-> <<>>, engagement |-> <<>>,
                              risk |-> <<>>]]

\* defaultdict lookup: the stored value, or the factory's
Lookup(dict, key, default) == IF key \in DOMAIN dict THEN dict[key] ELSE default

Store(dict, key, value) ==
    [k \in DOMAIN dict \cup {key} |-> IF k = key THEN value ELSE dict[k]]

\* the counter the if / elif chain of analyze_employees increments, "none"
\* when no branch matches
CategoryCounter(c) ==
    CASE c = "Strength" -> "strengths"
      [] c = "Weakness" -> "weaknesses"
      [] c = "Opportunity" -> "opportunities"
      [] c = "Threat" -> "threats"
      [] OTHER -> "none"

\* variant: the department's threat count is taken from the tally of the
\* whole run
process_employee_global_tally(a, employee) ==
    LET s == calculate_scores(employee)
        swot_category == assign_swot_category(s.productivity, s.engagement, s.risk)
        dept == employee.Department
        old == Lookup(a.department_analysis, dept, NewDepartment)
        counter == CategoryCounter(swot_category)
        tally == Store(a.swot_distribution, swot_category,
                       Lookup(a.swot_distribution, swot_category, 0) + 1)
        dept_data ==
            [f \in DOMAIN old |->
               CASE f = "threats" -> Lookup(tally, "Threat", 0)
                 [] f = "total" \/ f = counter -> old[f] + 1
                 [] f = "avg_productivity" -> Append(old[f], s.productivity)
                 [] f = "avg_engagement" -> Append(old[f], s.engagement)
                 [] f = "avg_risk" -> Append(old[f], s.risk)
                 [] OTHER -> old[f]]
        entry == [Employee_ID |-> employee.Employee_ID, Department |-> dept,
                  SWOT_Category |-> swot_category,
                  Productivity_Score |-> s.productivity,
                  Engagement_Score |-> s.engagement, Risk_Score |-> s.risk]
    IN  [a EXCEPT
           !.swot_distribution = tally,
           !.score_distributions =
               [productivity |-> Append(@.productivity, s.productivity),
                engagement |-> Append(@.engagement, s.engagement),
                risk |-> Append(@.risk, s.risk)],
           !.department_analysis = Store(@, dept, dept_data),
           !.department_order =
               IF dept \in DOMAIN a.department_analysis THEN @ ELSE Append(@, dept),
           !.high_risk_employees =
               IF swot_category = "Threat" \/ s.risk >= HighRiskCutoff
               THEN Append(@, entry) ELSE @,
           !.top_performers =
               IF swot_category = "Strength" /\ s.productivity >= TopPerformerCutoff
               THEN Append(@, entry) ELSE @]

\* variant: the if / elif chain has no branch for Opportunity
process_employee_no_opportunity(a, employee) ==
    LET s == calculate_scores(employee)
        swot_category == assign_swot_category(s.productivity, s.engagement, s.risk)
        dept == employee.Department
        old == Lookup(a.department_analysis, dept, NewDepartment)
        counter == IF swot_category = "Opportunity" THEN "none"
                   ELSE CategoryCounter(swot_category)
        dept_data ==
            [f \in DOMAIN old |->
               CASE f = "total" \/ f = counter -> old[f] + 1
                 [] f = "avg_productivity" -> Append(old[f], s.productivity)
                 [] f = "avg_engagement" -> Append(old[f], s.engagement)
                 [] f = "avg_risk" -> Append(old[f], s.risk)
                 [] OTHER -> old[f]]
        entry == [Employee_ID |-> employee.Employee_ID, Department |-> dept,
                  SWOT_Category |-> swot_category,
                  Productivity_Score |-> s.productivity,
                  Engagement_Score |-> s.engagement, Risk_Score |-> s.risk]
    IN  [a EXCEPT
           !.swot_distribution =
               Store(@, swot_category, Lookup(@, swot_category, 0) + 1),
           !.score_distributions =
               [productivity |-> Append(@.productivity, s.productivity),
                engagement |-> Append(@.engagement, s.engagement),
                risk |-> Append(@.risk, s.risk)],
           !.department_analysis = Store(@, dept, dept_data),
           !.department_order =
               IF dept \in DOMAIN a.department_analysis THEN @ ELSE Append(@, dept),
           !.high_risk_employees =
               IF swot_category = "Threat" \/ s.risk >= HighRiskCutoff
               THEN Append(@, entry) ELSE @,
           !.top_performers =
               IF swot_category = "Strength" /\ s.productivity >= TopPerformerCutoff
               THEN Append(@, entry) ELSE @]

\* one iteration of the loop of analyze_employees
process_employee(a, employee) ==
    LET s == calculate_scores(employee)
        swot_category == assign_swot_category(s.productivity, s.engagement, s.risk)
        dept == employee.Department
        old == Lookup(a.department_analysis, dept, NewDepartment)
        counter == CategoryCounter(swot_category)
        dept_data ==
            [f \in DOMAIN old |->
               CASE f = "total" \/ f = counter -> old[f] + 1
                 [] f = "avg_productivity" -> Append(old[f], s.productivity)
                 [] f = "avg_engagement" -> Append(old[f], s.engagement)
                 [] f = "avg_risk" -> Append(old[f], s.risk)
                 [] OTHER -> old[f]]
        entry == [Employee_ID |-> employee.Employee_ID, Department |-> dept,
                  SWOT_Category |-> swot_category,
                  Productivity_Score |-> s.productivity,
                  Engagement_Score |-> s.engagement, Risk_Score |-> s.risk]
    IN  [a EXCEPT
           !.swot_distribution =
               Store(@, swot_category, Lookup(@, swot_category, 0) + 1),
           !.score_distributions =
               [productivity |-> Append(@.productivity, s.productivity),
                engagement |-> Append(@.engagement, s.engagement),
                risk |-> Append(@.risk, s.risk)],
           !.department_analysis = Store(@, dept, dept_data),
           !.department_order =
               IF dept \in DOMAIN a.department_analysis THEN @ ELSE Append(@, dept),
           !.high_risk_employees =
               IF swot_category = "Threat" \/ s.risk >= HighRiskCutoff
               THEN Append(@, entry) ELSE @,
           !.top_performers =
               IF swot_category = "Strength" /\ s.productivity >= TopPerformerCutoff
               THEN Append(@, entry) ELSE @]

\* round(statistics.mean(list), 2) of a non-empty list of hundredths
mean_rounded(list) == RoundHalfEven(SumSeq(list), Len(list))

\* round(threats / total * 100, 1), in tenths of a percent
threat_percentage(threats, total) == RoundHalfEven(1000 * threats, total)

\* the body of the loop "Calculate department averages" for one entry
department_averages(data) ==
    IF data.avg_productivity # <<>>
    THEN [total |-> data.total, strengths |-> data.strengths,
          weaknesses |-> data.weaknesses, opportunities |-> data.opportunities,
          threats |-> data.threats,
          avg_productivity |-> mean_rounded(data.avg_productivity),
          avg_engagement |-> mean_rounded(data.avg_engagement),
          avg_risk |-> mean_rounded(data.avg_risk),
          threat_percentage |-> threat_percentage(data.threats, data.total)]
    ELSE data

Processed == Len(analysis.score_distributions.productivity)

\* sorted(list, key = field, reverse = True): stable, largest first
RECURSIVE InsertDescBy(_, _, _)
InsertDescBy(x, s, field) ==
    IF s = <<>> THEN <<x>>
    ELSE IF x[field] > Head(s)[field] THEN <<x>> \o s
    ELSE <<Head(s)>> \o InsertDescBy(x, Tail(s), field)

RECURSIVE SortDescBy(_, _)
SortDescBy(s, field) ==
    IF s = <<>> THEN <<>>
    ELSE InsertDescBy(s[Len(s)], SortDescBy(SubSeq(s, 1, Len(s) - 1), field), field)

FirstN(s, n) == SubSeq(s, 1, IF Len(s) < n THEN Len(s) ELSE n)

ReportTopN == 10
CriticalThreatPct == 150
WarningThreatPct == 100
DepartmentAttentionPct == 200

NoReport == [status |-> "none"]

\* generate_report, as the values the report text is made of; "raised" is
\* the exception that ends it, if any
generate_report(a) ==
    LET total == a.total_employees
        missing == {d \in DOMAIN a.department_analysis :
                       "threat_percentage" \notin DOMAIN a.department_analysis[d]}
        dept_list ==
            SortDescBy([i \in 1..Len(a.department_order) |->
                          [dept |-> a.department_order[i],
                           threat_percentage |->
                             a.department_analysis[a.department_order[i]].threat_percentage]],
                       "threat_percentage")
        threat_pct == (Lookup(a.swot_distribution, "Threat", 0) * 1000) \div total
    IN  IF total = 0 THEN [status |-> "raised", raised |-> "StatisticsError"]
        ELSE IF missing # {} THEN [status |-> "raised", raised |-> "KeyError"]
        ELSE [status |-> "ok",
              dept_list |-> dept_list,
              high_risk |-> FirstN(SortDescBy(a.high_risk_employees, "Risk_Score"),
                                   ReportTopN),
              top_performers |->
                  FirstN(SortDescBy(a.top_performers, "Productivity_Score"),
                         ReportTopN),
              level |-> IF threat_pct > CriticalThreatPct THEN "CRITICAL"
                        ELSE IF threat_pct > WarningThreatPct THEN "WARNING"
                        ELSE "GOOD",
              high_risk_depts |->
                  {d \in DOMAIN a.department_analysis :
                      a.department_analysis[d].threat_percentage
                          > DepartmentAttentionPct}]

(***************************************************************************)
(* verify_dashboard_data.py                                                *)
(***************************************************************************)
\* The Resigned column of a table read by pandas is either of dtype bool
\* (read_csv parsed True/False) or of dtype object holding the strings
\* 'True' / 'False'; the row's field Resigned says which of the two values.
DTypes == {"bool", "str"}

\* lambda x: 5 if x == True or x == 'True' else 0
verify_resigned_penalty(resigned, dtype) ==
    IF resigned THEN ResignedPenalty ELSE 0

\* test_data_processing.assign_swot
verify_assign_swot(row) ==
    IF row.productivity_score >= HighScoreCutoff
       /\ row.engagement_score >= HighScoreCutoff
       /\ row.risk_score <= LowRiskCutoff
    THEN "Strength"
    ELSE IF row.productivity_score < LowScoreCutoff
            \/ row.engagement_score < LowScoreCutoff
            \/ row.risk_score >= HighRiskCutoff
    THEN "Threat"
    ELSE IF row.productivity_score >= LowScoreCutoff
            /\ row.productivity_score < HighScoreCutoff
            /\ row.engagement_score >= LowScoreCutoff
            /\ row.engagement_score < HighScoreCutoff
    THEN "Weakness"
    ELSE "Opportunity"

\* test_data_processing: the three score columns and the category column
test_data_processing(d, dtype) ==
    LET scored == [i \in 1..Len(d) |->
                     d[i] @@ [productivity_score |-> basic_productivity(d[i]),
                              engagement_score |-> basic_engagement(d[i]),
                              risk_score |-> basic_risk(d[i],
                                  verify_resigned_penalty(d[i].Resigned, dtype))]]
    IN  [i \in 1..Len(d) |->
            scored[i] @@ [swot_category |-> verify_assign_swot(scored[i])]]

(***************************************************************************)
(* enhanced_train_mltk_models.py                                           *)
(***************************************************************************)
ScoreMin == 0
ScoreMax == 500
EnhancedResignedPenalty == 2

\* Series.map({'True': v, 'False': 0}): a bool value is no key of the
\* mapping, so a column of dtype bool maps to NaN
map_resigned(resigned, dtype, v) ==
    IF dtype = "bool" THEN NaN ELSE IF resigned THEN v ELSE 0

\* (perf*1.2 + hours/50*2 + projects/15*1.5 + training/100 + sat/5*1.3) / 5
enhanced_productivity(e) ==
    ClipRound(12000 * e.Performance_Score + 400 * e.Work_Hours_Per_Week
              + 1000 * e.Projects_Handled + 100 * e.Training_Hours
              + 26 * e.Employee_Satisfaction_Score, 50000, ScoreMin, ScoreMax)

\* (sat*1.5 + training/50 + promotions*3 + remote/100*0.5 - sick*0.3) / 4
enhanced_engagement(e) ==
    ClipRound(3 * e.Employee_Satisfaction_Score + 4 * e.Training_Hours
              + 600 * e.Promotions + e.Remote_Work_Frequency
              - 60 * e.Sick_Days, 800, ScoreMin, ScoreMax)

\* (sick*0.3 + overtime/15 + resignation_risk + (5 - perf)*0.4
\*  + (5 - sat)*0.3) / 5
enhanced_risk(e, resignation_risk) ==
    IF IsNaN(resignation_risk) THEN NaN
    ELSE ClipRound(900 * e.Sick_Days + 200 * e.Overtime_Hours
                   + 3000 * resignation_risk
                   + 1200 * (5 - e.Performance_Score)
                   + 9 * (500 - e.Employee_Satisfaction_Score),
                   15000, ScoreMin, ScoreMax)

\* 5 - (Overtime_Hours / 10).clip(0, 5), in hundredths; the value is not
\* rounded
work_life_balance(e) ==
    LET tenth == 10 * e.Overtime_Hours
    IN  500 - (IF tenth < 0 THEN 0 ELSE IF tenth > 500 THEN 500 ELSE tenth)

\* np.log1p(years) for years 0..20, to four decimals, in ten-thousandths
Log1pTable ==
    <<0, 6931, 10986, 13863, 16094, 17918, 19459, 20794, 21972, 23026, 23979,
      24849, 25649, 26391, 27081, 27726, 28332, 28904, 29444, 29957, 30445>>

\* np.log1p(Years_At_Company).clip(0, 3), in ten-thousandths; the value is
\* not rounded (log1p exceeds 3 from 20 years on)
tenure_factor(e) ==
    LET years == e.Years_At_Company
        log == IF years >= Len(Log1pTable) THEN Log1pTable[Len(Log1pTable)]
               ELSE Log1pTable[years + 1]
    IN  IF log > 30000 THEN 30000 ELSE log

enhanced_create_features(d, dtype) ==
    [i \in 1..Len(d) |->
        d[i] @@ [productivity_score |-> enhanced_productivity(d[i]),
                 engagement_score |-> enhanced_engagement(d[i]),
                 risk_score |-> enhanced_risk(d[i],
                     map_resigned(d[i].Resigned, dtype, EnhancedResignedPenalty)),
                 work_life_balance_score |-> work_life_balance(d[i]),
                 tenure_factor |-> tenure_factor(d[i])]]

\* the six quantile calls of assign_optimized_swot_categories; the cutoffs
\* are in quarter-hundredths
calibrate(d) ==
    [productivity_75 |-> quantile(Column(d, "productivity_score"), 3),
     productivity_25 |-> quantile(Column(d, "productivity_score"), 1),
     engagement_75 |-> quantile(Column(d, "engagement_score"), 3),
     engagement_25 |-> quantile(Column(d, "engagement_score"), 1),
     risk_75 |-> quantile(Column(d, "risk_score"), 3),
     risk_25 |-> quantile(Column(d, "risk_score"), 1)]

Quarters(x) == IF IsNaN(x) THEN NaN ELSE 4 * x

\* variant: the Threat rule tried before the Strength rule
assign_swot_threat_first(row, t) ==
    LET prod == Quarters(row.productivity_score)
        eng == Quarters(row.engagement_score)
        risk == Quarters(row.risk_score)
    IN  IF Ge(risk, t.risk_75)
           /\ (Le(prod, t.productivity_25) \/ Le(eng, t.engagement_25))
        THEN "Threat"
        ELSE IF Ge(prod, t.productivity_75) /\ Ge(eng, t.engagement_75)
                /\ Le(risk, t.risk_25)
        THEN "Strength"
        ELSE IF Le(prod, t.productivity_25) /\ Le(eng, t.engagement_25)
        THEN "Weakness"
        ELSE "Opportunity"

\* variant: the Weakness rule tried before the Threat rule
assign_swot_weakness_first(row, t) ==
    LET prod == Quarters(row.productivity_score)
        eng == Quarters(row.engagement_score)
        risk == Quarters(row.risk_score)
    IN  IF Ge(prod, t.productivity_75) /\ Ge(eng, t.engagement_75)
           /\ Le(risk, t.risk_25)
        THEN "Strength"
        ELSE IF Le(prod, t.productivity_25) /\ Le(eng, t.engagement_25)
        THEN "Weakness"
        ELSE IF Ge(risk, t.risk_75)
                /\ (Le(prod, t.productivity_25) \/ Le(eng, t.engagement_25))
        THEN "Threat"
        ELSE "Opportunity"

\* assign_optimized_swot_categories.assign_swot, the row-wise rule
assign_swot(row, t) ==
    LET prod == Quarters(row.productivity_score)
        eng == Quarters(row.engagement_score)
        risk == Quarters(row.risk_score)
    IN  IF Ge(prod, t.productivity_75) /\ Ge(eng, t.engagement_75)
           /\ Le(risk, t.risk_25)
        THEN "Strength"
        ELSE IF Ge(risk, t.risk_75)
                /\ (Le(prod, t.productivity_25) \/ Le(eng, t.engagement_25))
        THEN "Threat"
        ELSE IF Le(prod, t.productivity_25) /\ Le(eng, t.engagement_25)
        THEN "Weakness"
        ELSE "Opportunity"

\* df[name] = values: the column is replaced, or added
SetColumn(d, name, values) ==
    [i \in 1..Len(d) |->
        [f \in DOMAIN d[i] \cup {name} |-> IF f = name THEN values[i] ELSE d[i][f]]]

\* variant: the cutoffs are taken over the rows not already labelled a
\* Strength
assign_optimized_swot_categories_unlabelled(d) ==
    LET t == calibrate(SelectSeq(d, LAMBDA row :
                 ~("swot_category" \in DOMAIN row /\ row.swot_category = "Strength")))
    IN  [df |-> SetColumn(d, "swot_category",
                          [i \in 1..Len(d) |-> assign_swot(d[i], t)]),
         swot_thresholds |-> t]

\* variant: the cutoffs are taken anew for each row, over the rows up to it
assign_optimized_swot_categories_incremental(d) ==
    [df |-> SetColumn(d, "swot_category",
                      [i \in 1..Len(d) |-> assign_swot(d[i], calibrate(SubSeq(d, 1, i)))]),
     swot_thresholds |-> calibrate(d)]

\* assign_optimized_swot_categories: the table with its swot_category
\* column, and the thresholds it stores
assign_optimized_swot_categories(d) ==
    LET t == calibrate(d)
    IN  [df |-> SetColumn(d, "swot_category",
                          [i \in 1..Len(d) |-> assign_swot(d[i], t)]),
         swot_thresholds |-> t]

\* Rows the enhanced trainer reads
EnhancedProfiles ==
    { BaseRow,
      [BaseRow EXCEPT !.Resigned = TRUE, !.Overtime_Hours = 30],
      [BaseRow EXCEPT !.Performance_Score = 1, !.Employee_Satisfaction_Score = 100] }

\* IsolationForest.decision_function, and LogisticRegression.predict_proba
\* in percent: values the library may return
AnomalyScores == {0 - 10, 10}
Probabilities == {10, 60}

\* variant: the comparisons with the two percentiles are strict
anomaly_level_strict(score, scores) ==
    LET anomaly_threshold_high == 2 * quantile_at(scores, 1, 10)
        anomaly_threshold_medium == 5 * quantile_at(scores, 1, 4)
    IN  IF Lt(20 * score, anomaly_threshold_high) THEN "High"
        ELSE IF Lt(20 * score, anomaly_threshold_medium) THEN "Medium"
        ELSE "Low"

\* np.select on the 10th and 25th percentile of the anomaly scores; the
\* percentiles are in twentieths of the scores' unit
anomaly_level(score, scores) ==
    LET anomaly_threshold_high == 2 * quantile_at(scores, 1, 10)
        anomaly_threshold_medium == 5 * quantile_at(scores, 1, 4)
    IN  IF Le(20 * score, anomaly_threshold_high) THEN "High"
        ELSE IF Le(20 * score, anomaly_threshold_medium) THEN "Medium"
        ELSE "Low"

\* pd.cut(p, bins=[0, 0.1, 0.3, 0.5, 0.7, 1.0], include_lowest=True)
enhanced_risk_level(p) ==
    IF p < 0 \/ p > 100 THEN "NaN"
    ELSE IF p <= 10 THEN "Very Low"
    ELSE IF p <= 30 THEN "Low"
    ELSE IF p <= 50 THEN "Medium"
    ELSE IF p <= 70 THEN "High"
    ELSE "Very High"

\* Resigned.map({'True': 1, 'False': 0}).fillna(0).astype(int)
enhanced_target(resigned, dtype) ==
    LET m == map_resigned(resigned, dtype, 1)
    IN  IF IsNaN(m) THEN 0 ELSE m

nunique(values) == Cardinality({values[i] : i \in DOMAIN values})

\* variant: the step returns only when the target holds no class at all
enhanced_skip_attrition_no_class(y) == nunique(y) < 1

\* if y.nunique() < 2: return
enhanced_skip_attrition(y) == nunique(y) < 2

CountWhere(d, P(_)) == Cardinality({i \in 1..Len(d) : P(d[i])})

\* round(count / total * 100, 1) of pandas, tenths of a percent
pct_round1(count, total) == RoundHalfEven(1000 * count, total)

CriticalThreatShare == 200
LowStrengthShare == 150
DepartmentFocusShare == 250

\* the three records _generate_recommendations can append
RiskMitigation ==
    [priority |-> "CRITICAL", category |-> "Risk Mitigation",
     action |-> "Implement immediate intervention program for high-threat employees",
     expected_impact |-> "Reduce turnover risk by 15-25%"]

PerformanceEnhancement ==
    [priority |-> "HIGH", category |-> "Performance Enhancement",
     action |-> "Develop talent development programs to move Opportunities to Strengths",
     expected_impact |-> "Increase top performer retention by 20%"]

\* the action text names the departments found
DepartmentalFocus(high_risk_depts) ==
    [priority |-> "HIGH", category |-> "Departmental Focus",
     action |-> [text |-> "Conduct culture assessment in", departments |-> high_risk_depts],
     expected_impact |-> "Improve departmental satisfaction by 15%"]

\* variant: the CRITICAL record is emitted from 20 percent on
generate_recommendations_from_20(percentages, departmental) ==
    LET threat_pct == Lookup(percentages, "Threat", 0)
        strength_pct == Lookup(percentages, "Strength", 0)
        high_risk_depts == {d \in DOMAIN departmental :
                               Gt(departmental[d].threat_percentage,
                                  DepartmentFocusShare)}
    IN  (IF threat_pct >= CriticalThreatShare THEN <<RiskMitigation>> ELSE <<>>)
        \o (IF strength_pct < LowStrengthShare
            THEN <<PerformanceEnhancement>> ELSE <<>>)
        \o (IF high_risk_depts # {}
            THEN <<DepartmentalFocus(high_risk_depts)>> ELSE <<>>)

\* _generate_recommendations
generate_recommendations(percentages, departmental) ==
    LET threat_pct == Lookup(percentages, "Threat", 0)
        strength_pct == Lookup(percentages, "Strength", 0)
        high_risk_depts == {d \in DOMAIN departmental :
                               Gt(departmental[d].threat_percentage,
                                  DepartmentFocusShare)}
    IN  (IF threat_pct > CriticalThreatShare THEN <<RiskMitigation>> ELSE <<>>)
        \o (IF strength_pct < LowStrengthShare
            THEN <<PerformanceEnhancement>> ELSE <<>>)
        \o (IF high_risk_depts # {}
            THEN <<DepartmentalFocus(high_risk_depts)>> ELSE <<>>)

\* (swot_dist / len(self.df) * 100).round(1): the share of each category
\* present, in tenths of a percent
swot_percentages(distribution, n) ==
    [c \in DOMAIN distribution |-> pct_round1(distribution[c], n)]

\* variant: Opportunity weighs as much as Strength
health_score_opportunity_full(percentages) ==
    10 * Lookup(percentages, "Strength", 0)
    + 10 * Lookup(percentages, "Opportunity", 0)
    - 3 * Lookup(percentages, "Weakness", 0)
    - 10 * Lookup(percentages, "Threat", 0)

\* Strength% * 1.0 + Opportunity% * 0.7 - Weakness% * 0.3 - Threat% * 1.0 on
\* the rounded percentages, in hundredths of a point
health_score(percentages) ==
    10 * Lookup(percentages, "Strength", 0)
    + 7 * Lookup(percentages, "Opportunity", 0)
    - 3 * Lookup(percentages, "Weakness", 0)
    - 10 * Lookup(percentages, "Threat", 0)

\* generate_comprehensive_insights; "raised" is the exception that ends it
generate_comprehensive_insights(d, cols) ==
    LET n == Len(d)
        present == {d[i].swot_category : i \in 1..n}
        distribution ==
            [c \in present |-> CountWhere(d, LAMBDA r : r.swot_category = c)]
        percentages == swot_percentages(distribution, n)
        \* df.get('attrition_risk_level', a Series of 'Low')
        level(r) == IF "attrition_risk_level" \in cols
                    THEN r.attrition_risk_level ELSE "Low"
        high_risk(r) == \/ r.swot_category = "Threat"
                        \/ level(r) \in {"High", "Very High"}
                        \/ r.anomaly_level = "High"
        depts == {d[i].Department : i \in 1..n}
        departmental ==
            [g \in depts |->
               LET threats == CountWhere(d, LAMBDA r : r.Department = g
                                             /\ r.swot_category = "Threat")
                   count == CountWhere(d, LAMBDA r : r.Department = g)
               IN  [swot_category |-> threats, Employee_ID |-> count,
                    threat_percentage |-> pct_round1(threats, count)]]
    IN  IF n = 0 THEN [status |-> "raised", raised |-> "ZeroDivisionError"]
        ELSE [status |-> "ok",
              total_employees |-> n,
              distribution |-> distribution,
              percentages |-> percentages,
              health_score |-> health_score(percentages),
              high_risk_count |-> CountWhere(d, high_risk),
              has_attrition |-> "attrition_probability" \in cols,
              departmental_insights |-> departmental,
              recommendations |-> generate_recommendations(percentages, departmental)]

NoThresholds == [status |-> "none"]
NoMapping == [c \in {} |-> "none"]

RowChoices(profiles) == profiles \X Departments

Population(maxn, profiles) ==
    UNION { { [i \in 1..n |-> MakeRow(i, f[i][1], f[i][2])] :
                f \in [1..n -> RowChoices(profiles)] } : n \in 0..maxn }

ValidateInit ==
    /\ program = "validate"
    /\ pc = "analyze"
    /\ df \in Population(MaxEmployees, ValidateProfiles)
    /\ analysis = NewAnalysis(df)
    /\ columns = {}
    /\ resigned_dtype = "str"
    /\ swot_thresholds = NoThresholds
    /\ swot_mapping = NoMapping
    /\ models = {}
    /\ scalers = {}
    /\ insights = NoReport
    /\ saved = NoReport
    /\ error = "none"

\* the exception that leaves one iteration of the loop of analyze_employees:
\* the one calculate_scores lets through, or the KeyError of
\* employee['Performance_Score'] where the high-risk or top-performer entry
\* is built
loop_raises(employee) ==
    LET s == calculate_scores(employee)
        swot_category == assign_swot_category(s.productivity, s.engagement, s.risk)
    IN  IF s.raised # "none" THEN s.raised
        ELSE IF employee.defect = "absent_key_performance"
                /\ \/ swot_category = "Threat" \/ s.risk >= HighRiskCutoff
                   \/ swot_category = "Strength" /\ s.productivity >= TopPerformerCutoff
        THEN "KeyError"
        ELSE "none"

\* analyze_employees: the loop body for the next employee; an exception
\* leaves analyze_employees and is caught by main's handler, which prints it
\* and ends the run
AnalyzeEmployee ==
    /\ program = "validate" /\ pc = "analyze"
    /\ Processed < Len(df)
    /\ IF loop_raises(df[Processed + 1]) # "none"
       THEN /\ pc' = "done"
            /\ error' = loop_raises(df[Processed + 1])
            /\ UNCHANGED analysis
       ELSE /\ analysis' = process_employee(analysis, df[Processed + 1])
            /\ UNCHANGED <<pc, error>>
    /\ UNCHANGED <<program, df, columns, resigned_dtype, swot_thresholds,
                   swot_mapping, models, scalers, insights, saved>>

\* analyze_employees: the department averages, and the return
DepartmentAverages ==
    /\ program = "validate" /\ pc = "analyze"
    /\ Processed = Len(df)
    /\ analysis' = [analysis EXCEPT !.department_analysis =
                       [d \in DOMAIN @ |-> department_averages(@[d])]]
    /\ pc' = "report"
    /\ UNCHANGED <<program, df, columns, resigned_dtype, swot_thresholds,
                   swot_mapping, models, scalers, insights, saved, error>>

\* main: generate_report; an exception is caught by main's handler, which
\* prints it and ends the run
GenerateReport ==
    /\ program = "validate" /\ pc = "report"
    /\ LET r == generate_report(analysis)
       IN  /\ insights' = r
           /\ IF r.status = "raised"
              THEN pc' = "done" /\ error' = r.raised
              ELSE pc' = "save" /\ error' = error
    /\ UNCHANGED <<program, df, columns, resigned_dtype, analysis, swot_thresholds,
                   swot_mapping, models, scalers, saved>>

\* main: the report file and the JSON summary
ValidateSave ==
    /\ program = "validate" /\ pc = "save"
    /\ saved' = [files |-> {"employee_swot_analysis_results.txt",
                             "swot_analysis_summary.json"}]
    /\ pc' = "done"
    /\ UNCHANGED <<program, df, columns, resigned_dtype, analysis, swot_thresholds,
                   swot_mapping, models, scalers, insights, error>>

FeatureColumns == {"productivity_score", "engagement_score", "risk_score",
                   "work_life_balance_score", "tenure_factor"}

\* test_data_processing of the dashboard verifier: the table as read
VerifyInit ==
    /\ program = "verify"
    /\ pc = "process"
    /\ resigned_dtype \in DTypes
    /\ df \in Population(MaxRows, {p \in ValidateProfiles : p.defect = "none"})
    /\ columns = {}
    /\ analysis = NewAnalysis(<<>>)
    /\ swot_thresholds = NoThresholds
    /\ swot_mapping = NoMapping
    /\ models = {}
    /\ scalers = {}
    /\ insights = NoReport
    /\ saved = NoReport
    /\ error = "none"

TestDataProcessing ==
    /\ program = "verify" /\ pc = "process"
    /\ df' = test_data_processing(df, resigned_dtype)
    /\ columns' = {"productivity_score", "engagement_score", "risk_score",
                   "swot_category"}
    /\ pc' = "done"
    /\ UNCHANGED <<program, resigned_dtype, analysis, swot_thresholds, swot_mapping,
                   models, scalers, insights, saved, error>>

\* OptimizedEmployeeSWOTMLTK(data_path): the table is read and
\* create_features has run
EnhancedInit ==
    /\ program = "enhanced"
    /\ pc = "clustering"
    /\ resigned_dtype \in DTypes
    /\ \E raw \in Population(MaxRows, EnhancedProfiles) :
          df = enhanced_create_features(raw, resigned_dtype)
    /\ columns = FeatureColumns
    /\ analysis = NewAnalysis(<<>>)
    /\ swot_thresholds = NoThresholds
    /\ swot_mapping = NoMapping
    /\ models = {}
    /\ scalers = {}
    /\ insights = NoReport
    /\ saved = NoReport
    /\ error = "none"

\* train_enhanced_clustering (the cluster labels are read by nothing)
TrainEnhancedClustering ==
    /\ program = "enhanced" /\ pc = "clustering"
    /\ LET r == assign_optimized_swot_categories(df)
       IN  /\ df' = r.df
           /\ swot_thresholds' = r.swot_thresholds
    /\ columns' = columns \cup {"cluster_3", "cluster_4", "cluster_5", "cluster",
                                "swot_category"}
    /\ models' = models \cup {"kmeans"}
    /\ scalers' = scalers \cup {"kmeans"}
    /\ pc' = "anomaly"
    /\ UNCHANGED <<program, resigned_dtype, analysis, swot_mapping, insights, saved,
                   error>>

\* train_enhanced_anomaly_detection
TrainEnhancedAnomalyDetection ==
    /\ program = "enhanced" /\ pc = "anomaly"
    /\ \E scores \in [1..Len(df) -> AnomalyScores] :
          df' = [i \in 1..Len(df) |->
                   df[i] @@ [outlier |-> IF scores[i] < 0 THEN 1 ELSE 0,
                             anomaly_score |-> scores[i],
                             anomaly_level |-> anomaly_level(scores[i], scores)]]
    /\ columns' = columns \cup {"outlier", "anomaly_score", "anomaly_level"}
    /\ models' = models \cup {"isolation_forest"}
    /\ scalers' = scalers \cup {"isolation_forest"}
    /\ pc' = "attrition"
    /\ UNCHANGED <<program, resigned_dtype, analysis, swot_thresholds, swot_mapping,
                   insights, saved, error>>

\* train_enhanced_attrition_model
TrainEnhancedAttritionModel ==
    /\ program = "enhanced" /\ pc = "attrition"
    /\ LET y == [i \in 1..Len(df) |-> enhanced_target(df[i].Resigned, resigned_dtype)]
       IN  IF enhanced_skip_attrition(y)
           THEN UNCHANGED <<df, columns, models, scalers>>
           ELSE /\ \E probabilities \in [1..Len(df) -> Probabilities] :
                      df' = [i \in 1..Len(df) |->
                               df[i] @@ [attrition_probability |-> probabilities[i],
                                         attrition_risk_level |->
                                             enhanced_risk_level(probabilities[i])]]
                /\ columns' = columns \cup {"attrition_probability",
                                            "attrition_risk_level"}
                /\ models' = models \cup {"logistic_regression"}
                /\ scalers' = scalers \cup {"logistic_regression"}
    /\ pc' = "insights"
    /\ UNCHANGED <<program, resigned_dtype, analysis, swot_thresholds, swot_mapping,
                   insights, saved, error>>

\* variant: generating the insights relabels every record a Threat
GenerateComprehensiveInsightsRelabel ==
    /\ program = "enhanced" /\ pc = "insights"
    /\ LET r == generate_comprehensive_insights(df, columns)
       IN  /\ insights' = r
           /\ IF r.status = "raised"
              THEN pc' = "done" /\ error' = r.raised
              ELSE pc' = "save" /\ error' = error
    /\ df' = SetColumn(df, "swot_category", [i \in 1..Len(df) |-> "Threat"])
    /\ UNCHANGED <<program, columns, resigned_dtype, analysis, swot_thresholds,
                   swot_mapping, models, scalers, saved>>

\* run_complete_analysis: insights = self.generate_comprehensive_insights();
\* an exception is caught by nothing and ends the run
GenerateComprehensiveInsights ==
    /\ program = "enhanced" /\ pc = "insights"
    /\ LET r == generate_comprehensive_insights(df, columns)
       IN  /\ insights' = r
           /\ IF r.status = "raised"
              THEN pc' = "done" /\ error' = r.raised
              ELSE pc' = "save" /\ error' = error
    /\ UNCHANGED <<program, df, columns, resigned_dtype, analysis, swot_thresholds,
                   swot_mapping, models, scalers, saved>>

SampleColumns == {"Employee_ID", "Department", "Job_Title", "productivity_score",
                  "engagement_score", "risk_score", "swot_category", "outlier",
                  "anomaly_level"}

\* save_enhanced_models, which calls generate_comprehensive_insights again,
\* and the executive summary that ends run_complete_analysis
SaveEnhancedModels ==
    /\ program = "enhanced" /\ pc = "save"
    /\ LET again == generate_comprehensive_insights(df, columns)
           sample == SampleColumns \cup
                     (IF "attrition_probability" \in columns
                      THEN {"attrition_probability", "attrition_risk_level"}
                      ELSE {})
       IN  saved' = [files |-> {m \o "_enhanced.pkl" : m \in models}
                               \cup {m \o "_scaler_enhanced.pkl" : m \in scalers}
                               \cup {"model_config.json", "business_insights.json",
                                     "enhanced_sample_data.csv"},
                     config |-> swot_thresholds,
                     business_insights |-> again,
                     sample_columns |-> sample]
    /\ pc' = "done"
    /\ UNCHANGED <<program, df, columns, resigned_dtype, analysis, swot_thresholds,
                   swot_mapping, models, scalers, insights, error>>

\* a further call of assign_optimized_swot_categories on the finished run's
\* table
Recalibrate ==
    /\ program = "enhanced" /\ pc = "done" /\ error = "none"
    /\ LET r == assign_optimized_swot_categories(df)
       IN  /\ df' = r.df
           /\ swot_thresholds' = r.swot_thresholds
    /\ pc' = "recalibrated"
    /\ UNCHANGED <<program, columns, resigned_dtype, analysis, swot_mapping, models,
                   scalers, insights, saved, error>>

\* load_data called again on the object after a categorization pass: the
\* file is read anew and create_features runs; swot_thresholds, models and
\* scalers keep what the earlier pass stored
LoadData ==
    /\ program = "enhanced" /\ pc = "anomaly"
    /\ resigned_dtype' \in DTypes
    /\ \E raw \in Population(MaxRows, EnhancedProfiles) :
          df' = enhanced_create_features(raw, resigned_dtype')
    /\ columns' = FeatureColumns
    /\ pc' = "clustering"
    /\ UNCHANGED <<program, analysis, swot_thresholds, swot_mapping, models, scalers,
                   insights, saved, error>>

NextNewData ==
    \/ TrainEnhancedClustering
    \/ LoadData

SpecNewData == EnhancedInit /\ [][NextNewData]_vars

(***************************************************************************)
(* train_mltk_models.py                                                    *)
(***************************************************************************)
NClusters == 4
BasicResignedPenalty == 5
BasicTopN == 20

\* The table the basic trainer reads.  KMeans(n_clusters=4) partitions the
\* rows into 4 non-empty clusters, which takes 4 rows of distinct features:
\* the table holds the four rows below (the first two resigned or not) and
\* up to MaxExtraRows further rows, each a copy of one of the four in either
\* department.
BasicBase(r1, r2) ==
    << MakeRow(1, [BaseRow EXCEPT !.Resigned = r1], "Engineering"),
       MakeRow(2, [BaseRow EXCEPT !.Performance_Score = 1,
                                  !.Employee_Satisfaction_Score = 100,
                                  !.Sick_Days = 10, !.Overtime_Hours = 30,
                                  !.Resigned = r2], "Sales"),
       MakeRow(3, [BaseRow EXCEPT !.Performance_Score = 1,
                                  !.Employee_Satisfaction_Score = 100], "Sales"),
       MakeRow(4, [BaseRow EXCEPT !.Performance_Score = 1,
                                  !.Overtime_Hours = 30], "Engineering") >>

BasicTables ==
    UNION { { BasicBase(r1, r2)
              \o [i \in 1..k |->
                    [BasicBase(r1, r2)[x[i][1]] EXCEPT
                        !.Employee_ID = NClusters + i, !.Department = x[i][2]]
                    @@ [copy_of |-> x[i][1]]] :
              x \in [1..k -> (1..NClusters) \X Departments] } :
            r1 \in BOOLEAN, r2 \in BOOLEAN, k \in 0..MaxExtraRows }

\* the row of the first four that row i has the features of
FeaturesOf(d, i) == IF "copy_of" \in DOMAIN d[i] THEN d[i].copy_of ELSE i

\* one cluster label for each of the four feature vectors, all four used
Labellings == {l \in [1..NClusters -> 0..(NClusters - 1)] :
                  \A c \in 0..(NClusters - 1) : \E j \in 1..NClusters : l[j] = c}

basic_create_features(d, dtype) ==
    [i \in 1..Len(d) |->
        d[i] @@ [productivity_score |-> basic_productivity(d[i]),
                 engagement_score |-> basic_engagement(d[i]),
                 risk_score |-> basic_risk(d[i],
                     map_resigned(d[i].Resigned, dtype, BasicResignedPenalty))]]

\* Series.mean() > Series.mean() and <, on the sums and counts of the two
\* series; NaN is skipped, and the mean of nothing is NaN
MeanGt(a, b) ==
    LET x == DropNaN(a)
        y == DropNaN(b)
    IN  x # <<>> /\ y # <<>> /\ SumSeq(x) * Len(y) > SumSeq(y) * Len(x)

MeanLt(a, b) == MeanGt(b, a)

SelectRows(d, P(_)) ==
    LET F[i \in 0..Len(d)] ==
          IF i = 0 THEN <<>>
          ELSE IF P(d[i]) THEN Append(F[i - 1], d[i]) ELSE F[i - 1]
    IN  F[Len(d)]

\* the branch of assign_swot_categories for one cluster
cluster_category(d, cluster) ==
    LET rows == SelectRows(d, LAMBDA r : r.cluster = cluster)
        prod == Column(rows, "productivity_score")
        eng == Column(rows, "engagement_score")
        risk == Column(rows, "risk_score")
        avg_productivity == Column(d, "productivity_score")
        avg_engagement == Column(d, "engagement_score")
        avg_risk == Column(d, "risk_score")
    IN  IF MeanGt(prod, avg_productivity) /\ MeanGt(eng, avg_engagement)
           /\ MeanLt(risk, avg_risk)
        THEN "Strength"
        ELSE IF MeanLt(prod, avg_productivity) /\ MeanLt(eng, avg_engagement)
        THEN "Weakness"
        ELSE IF MeanGt(risk, avg_risk)
                /\ (MeanLt(prod, avg_productivity) \/ MeanLt(eng, avg_engagement))
        THEN "Threat"
        ELSE "Opportunity"

\* assign_swot_categories: the mapping, and the table with its category
assign_swot_categories(d) ==
    LET mapping == [c \in 0..(NClusters - 1) |-> cluster_category(d, c)]
    IN  [swot_mapping |-> mapping,
         df |-> SetColumn(d, "swot_category",
                          [i \in 1..Len(d) |-> mapping[d[i].cluster]])]

\* astype(str).str.lower().map({'true': 1, 'false': 0}).fillna(0)
basic_target(resigned, dtype) == IF resigned THEN 1 ELSE 0

\* if unique_classes < 2: return
basic_skip_attrition(y) == nunique(y) < 2

\* variant: the cutoffs themselves belong to the higher tier
basic_risk_level_closed_below(x) ==
    IF x >= 70 THEN "Very High"
    ELSE IF x >= 50 THEN "High"
    ELSE IF x >= 30 THEN "Medium"
    ELSE IF x >= 10 THEN "Low"
    ELSE "Very Low"

\* 'Very High' if x > 0.7 else 'High' if x > 0.5 else ...
basic_risk_level(x) ==
    IF x > 70 THEN "Very High"
    ELSE IF x > 50 THEN "High"
    ELSE IF x > 30 THEN "Medium"
    ELSE IF x > 10 THEN "Low"
    ELSE "Very Low"

\* the columns of a high-risk row that go into the insights document
\* (Job_Title, which no computation reads, is left out of the tables)
high_risk_record(r) ==
    [Employee_ID |-> r.Employee_ID, Department |-> r.Department,
     swot_category |-> r.swot_category,
     attrition_risk_level |-> r.attrition_risk_level,
     productivity_score |-> r.productivity_score,
     engagement_score |-> r.engagement_score,
     risk_score |-> r.risk_score]

\* variant: the high-risk selection reads attrition_risk_level without
\* asking whether the column exists
generate_insights_unguarded(d, cols) ==
    LET n == Len(d)
        present == {d[i].swot_category : i \in 1..n}
        depts == {d[i].Department : i \in 1..n}
        department_risks ==
            [g \in depts |->
               LET threats == CountWhere(d, LAMBDA r : r.Department = g
                                             /\ r.swot_category = "Threat")
                   count == CountWhere(d, LAMBDA r : r.Department = g)
               IN  [swot_category |-> threats, Employee_ID |-> count,
                    threat_percentage |-> pct_round1(threats, count)]]
        high_risk ==
            SelectRows(d, LAMBDA r : r.swot_category = "Threat"
                                     \/ r.attrition_risk_level \in {"Very High", "High"})
    IN  IF "attrition_risk_level" \notin cols
        THEN [status |-> "raised", raised |-> "KeyError"]
        ELSE [status |-> "ok",
              total_employees |-> n,
              swot_distribution |->
                  [c \in present |-> CountWhere(d, LAMBDA r : r.swot_category = c)],
              department_risks |-> department_risks,
              high_risk_employees |->
                  FirstN([i \in 1..Len(high_risk) |-> high_risk_record(high_risk[i])],
                         BasicTopN)]

\* generate_insights; the key high_risk_employees, absent when the column
\* is, is the empty list here
generate_insights(d, cols) ==
    LET n == Len(d)
        present == {d[i].swot_category : i \in 1..n}
        depts == {d[i].Department : i \in 1..n}
        department_risks ==
            [g \in depts |->
               LET threats == CountWhere(d, LAMBDA r : r.Department = g
                                             /\ r.swot_category = "Threat")
                   count == CountWhere(d, LAMBDA r : r.Department = g)
               IN  [swot_category |-> threats, Employee_ID |-> count,
                    threat_percentage |-> pct_round1(threats, count)]]
        high_risk ==
            SelectRows(d, LAMBDA r : r.swot_category = "Threat"
                                     \/ r.attrition_risk_level \in {"Very High", "High"})
    IN  [status |-> "ok",
         total_employees |-> n,
         swot_distribution |->
             [c \in present |-> CountWhere(d, LAMBDA r : r.swot_category = c)],
         department_risks |-> department_risks,
         high_risk_employees |->
             IF "attrition_risk_level" \in cols
             THEN FirstN([i \in 1..Len(high_risk) |-> high_risk_record(high_risk[i])],
                         BasicTopN)
             ELSE <<>>]

\* EmployeeSWOTMLTK(data_path): the table is read and create_features has run
BasicInit ==
    /\ program = "basic"
    /\ pc = "clustering"
    /\ resigned_dtype \in DTypes
    /\ \E raw \in BasicTables : df = basic_create_features(raw, resigned_dtype)
    /\ columns = FeatureColumns
    /\ analysis = NewAnalysis(<<>>)
    /\ swot_thresholds = NoThresholds
    /\ swot_mapping = NoMapping
    /\ models = {}
    /\ scalers = {}
    /\ insights = NoReport
    /\ saved = NoReport
    /\ error = "none"

\* train_clustering_model
TrainClusteringModel ==
    /\ program = "basic" /\ pc = "clustering"
    /\ \E l \in Labellings :
          LET r == assign_swot_categories(
                      SetColumn(df, "cluster",
                                [i \in 1..Len(df) |-> l[FeaturesOf(df, i)]]))
          IN  /\ df' = r.df
              /\ swot_mapping' = r.swot_mapping
    /\ columns' = columns \cup {"cluster", "swot_category"}
    /\ models' = models \cup {"kmeans"}
    /\ scalers' = scalers \cup {"kmeans"}
    /\ pc' = "anomaly"
    /\ UNCHANGED <<program, resigned_dtype, analysis, swot_thresholds, insights,
                   saved, error>>

\* variant: train_anomaly_detection registers its model and no scaler
TrainAnomalyDetectionModelOnly ==
    /\ program = "basic" /\ pc = "anomaly"
    /\ columns' = columns \cup {"outlier"}
    /\ models' = models \cup {"isolation_forest"}
    /\ pc' = "attrition"
    /\ UNCHANGED <<program, df, resigned_dtype, analysis, swot_thresholds,
                   swot_mapping, insights, saved, error, scalers>>

\* train_anomaly_detection (the outlier flags are read by nothing but the
\* closing print)
TrainAnomalyDetection ==
    /\ program = "basic" /\ pc = "anomaly"
    /\ columns' = columns \cup {"outlier"}
    /\ models' = models \cup {"isolation_forest"}
    /\ scalers' = scalers \cup {"isolation_forest"}
    /\ pc' = "attrition"
    /\ UNCHANGED <<program, df, resigned_dtype, analysis, swot_thresholds,
                   swot_mapping, insights, saved, error>>

\* train_attrition_model
TrainAttritionModel ==
    /\ program = "basic" /\ pc = "attrition"
    /\ LET y == [i \in 1..Len(df) |-> basic_target(df[i].Resigned, resigned_dtype)]
       IN  IF basic_skip_attrition(y)
           THEN UNCHANGED <<df, columns, models, scalers>>
           ELSE /\ \E p \in [1..NClusters -> Probabilities] :
                      df' = [i \in 1..Len(df) |->
                               df[i] @@ [attrition_probability |-> p[FeaturesOf(df, i)],
                                         attrition_risk_level |->
                                             basic_risk_level(p[FeaturesOf(df, i)])]]
                /\ columns' = columns \cup {"attrition_probability",
                                            "attrition_risk_level"}
                /\ models' = models \cup {"logistic_regression"}
                /\ scalers' = scalers \cup {"logistic_regression"}
    /\ pc' = "save"
    /\ UNCHANGED <<program, resigned_dtype, analysis, swot_thresholds, swot_mapping,
                   insights, saved, error>>

\* save_models, which calls generate_insights after the other files are
\* written (an exception of it is caught by nothing and ends the run), and
\* the closing summary of train_all_models
SaveModels ==
    /\ program = "basic" /\ pc = "save"
    /\ LET r == generate_insights(df, columns)
           written == {m \o ".pkl" : m \in models}
                      \cup {m \o "_scaler.pkl" : m \in scalers}
                      \cup {"swot_mapping.json", "sample_processed_data.csv"}
       IN  /\ insights' = r
           /\ IF r.status = "raised"
              THEN /\ saved' = [files |-> written, swot_mapping |-> swot_mapping]
                   /\ error' = r.raised
              ELSE /\ saved' = [files |-> written \cup {"model_insights.json"},
                                swot_mapping |-> swot_mapping]
                   /\ error' = error
    /\ pc' = "done"
    /\ UNCHANGED <<program, df, columns, resigned_dtype, analysis, swot_thresholds,
                   swot_mapping, models, scalers>>

\* analyze_employees with the defaultdict holding its factory's entry for a
\* department none of the records belongs to (main() makes no such lookup;
\* the entry is what department_analysis[dept] creates when it is read)
EmptyGroupInit ==
    /\ program = "validate"
    /\ pc = "analyze"
    /\ df \in Population(MaxEmployees, ValidateProfiles)
    /\ Len(df) >= 1
    /\ analysis = [NewAnalysis(df) EXCEPT
                      !.department_analysis = [d \in {"Marketing"} |-> NewDepartment],
                      !.department_order = <<"Marketing">>]
    /\ columns = {}
    /\ resigned_dtype = "str"
    /\ swot_thresholds = NoThresholds
    /\ swot_mapping = NoMapping
    /\ models = {}
    /\ scalers = {}
    /\ insights = NoReport
    /\ saved = NoReport
    /\ error = "none"

NextEmptyGroup == AnalyzeEmployee \/ DepartmentAverages \/ GenerateReport

SpecEmptyGroup == EmptyGroupInit /\ [][NextEmptyGroup]_vars

\* Populations with more flagged records than a list takes: a records of one
\* kind, then b of a second, then c of a third
Repeated(first, a, second, b, third, c) ==
    [i \in 1..(a + b + c) |->
        MakeRow(i, IF i <= a THEN first ELSE IF i <= a + b THEN second ELSE third,
                "Engineering")]

\* employees of the validator: a Threat of risk -1.00, a resigned Threat of
\* risk 4.00, a Strength
LongEmployeeLists ==
    { Repeated(BaseRow,
               a,
               [BaseRow EXCEPT !.Projects_Handled = 50, !.Training_Hours = 80,
                               !.Overtime_Hours = 200, !.Resigned = TRUE],
               b,
               [BaseRow EXCEPT !.Projects_Handled = 100, !.Training_Hours = 100],
               c) :
        a \in 0..(ReportTopN + 1), b \in 0..(ReportTopN + 1), c \in 0..1 }

\* rows of the basic trainer's table after train_attrition_model: a Threat
\* of risk 3.00, a Threat of risk 5.00 (both of the cluster mapped to Threat),
\* a Strength that is not flagged
TrainedRow(cluster, category, probability, risk) ==
    [cluster |-> cluster, swot_category |-> category,
     attrition_probability |-> probability,
     attrition_risk_level |-> basic_risk_level(probability),
     productivity_score |-> 250, engagement_score |-> 250, risk_score |-> risk]

LongTrainedTables ==
    { Repeated(TrainedRow(0, "Threat", 10, 300), a,
               TrainedRow(0, "Threat", 60, 500), b,
               TrainedRow(1, "Strength", 10, 0), c) :
        a \in 0..(BasicTopN + 1), b \in 0..(BasicTopN + 1), c \in 0..1 }

\* the validator before analyze_employees, or the basic trainer before
\* save_models, with such a population
TopNInit ==
    /\ \/ /\ program = "validate"
          /\ pc = "analyze"
          /\ df \in LongEmployeeLists
          /\ analysis = NewAnalysis(df)
          /\ columns = {}
          /\ swot_mapping = NoMapping
          /\ models = {}
          /\ scalers = {}
       \/ /\ program = "basic"
          /\ pc = "save"
          /\ df \in LongTrainedTables
          /\ analysis = NewAnalysis(<<>>)
          /\ columns = FeatureColumns
                          \cup {"cluster", "swot_category", "outlier",
                                "attrition_probability", "attrition_risk_level"}
          /\ swot_mapping = [k \in 0..(NClusters - 1) |->
                               CASE k = 0 -> "Threat" [] k = 1 -> "Strength"
                                 [] k = 2 -> "Weakness" [] OTHER -> "Opportunity"]
          /\ models = {"kmeans", "isolation_forest", "logistic_regression"}
          /\ scalers = {"kmeans", "isolation_forest", "logistic_regression"}
    /\ resigned_dtype = "str"
    /\ swot_thresholds = NoThresholds
    /\ insights = NoReport
    /\ saved = NoReport
    /\ error = "none"

NextTopN ==
    \/ AnalyzeEmployee
    \/ DepartmentAverages
    \/ GenerateReport
    \/ ValidateSave
    \/ SaveModels

SpecTopN == TopNInit /\ [][NextTopN]_vars

\* Tables of anomaly scores long enough for a score to lie between the 10th
\* and the 25th percentile
MaxScored == 5
ScoreChoices == {0 - 10, 0, 10}

\* the severity levels of train_enhanced_anomaly_detection on a table that
\* holds what decision_function returned
AnomalyInit ==
    /\ program = "anomaly_levels"
    /\ pc = "anomaly"
    /\ \E n \in 1..MaxScored : \E scores \in [1..n -> ScoreChoices] :
          df = [i \in 1..n |-> [anomaly_score |-> scores[i]]]
    /\ columns = {"anomaly_score"}
    /\ analysis = NewAnalysis(<<>>)
    /\ resigned_dtype = "str"
    /\ swot_thresholds = NoThresholds
    /\ swot_mapping = NoMapping
    /\ models = {}
    /\ scalers = {}
    /\ insights = NoReport
    /\ saved = NoReport
    /\ error = "none"

\* "Categorize anomaly severity": the two percentiles and np.select
CategorizeAnomalySeverity ==
    /\ program = "anomaly_levels" /\ pc = "anomaly"
    /\ LET scores == Column(df, "anomaly_score")
       IN  df' = [i \in 1..Len(df) |->
                    df[i] @@ [anomaly_level |-> anomaly_level(scores[i], scores)]]
    /\ columns' = columns \cup {"anomaly_level"}
    /\ pc' = "done"
    /\ UNCHANGED <<program, resigned_dtype, analysis, swot_thresholds, swot_mapping,
                   models, scalers, insights, saved, error>>

SpecAnomaly == AnomalyInit /\ [][CategorizeAnomalySeverity]_vars

\* predict_proba's values, in percent
ProbabilityGrid == 0..100

\* the two tier assignments applied to one probability: a one-row table
\* holding what predict_proba returned
TiersInit ==
    /\ program = "tiers"
    /\ pc = "attrition"
    /\ \E x \in ProbabilityGrid : df = <<[attrition_probability |-> x]>>
    /\ columns = {"attrition_probability"}
    /\ analysis = NewAnalysis(<<>>)
    /\ resigned_dtype = "str"
    /\ swot_thresholds = NoThresholds
    /\ swot_mapping = NoMapping
    /\ models = {}
    /\ scalers = {}
    /\ insights = NoReport
    /\ saved = NoReport
    /\ error = "none"

\* pd.cut of the enhanced trainer and the chained comparisons of the basic
\* one, each on the probability
AssignRiskLevels ==
    /\ program = "tiers" /\ pc = "attrition"
    /\ df' = [i \in 1..Len(df) |->
                df[i] @@ [enhanced_level |-> enhanced_risk_level(df[i].attrition_probability),
                          basic_level |-> basic_risk_level(df[i].attrition_probability)]]
    /\ columns' = columns \cup {"enhanced_level", "basic_level"}
    /\ pc' = "done"
    /\ UNCHANGED <<program, resigned_dtype, analysis, swot_thresholds, swot_mapping,
                   models, scalers, insights, saved, error>>

SpecTiers == TiersInit /\ [][AssignRiskLevels]_vars

\* Category counts of large tables: the values one axis of value_counts()
\* takes
CountChoices == {0, 1, 2, 2000, 7999}

\* generate_comprehensive_insights on a table of one department, the table
\* kept as the value_counts() of its swot_category column (a category of no
\* rows is absent from it) and its length
CountsInit ==
    /\ program = "enhanced_counts"
    /\ pc = "insights"
    /\ \E k \in [Categories -> CountChoices] :
          /\ \E c \in Categories : k[c] > 0
          /\ analysis = [NewAnalysis(<<>>) EXCEPT
                !.total_employees =
                    k["Strength"] + k["Weakness"] + k["Opportunity"] + k["Threat"],
                !.swot_distribution =
                    [c \in {x \in Categories : k[x] > 0} |-> k[c]]]
    /\ df = <<>>
    /\ columns = {}
    /\ resigned_dtype = "str"
    /\ swot_thresholds = NoThresholds
    /\ swot_mapping = NoMapping
    /\ models = {}
    /\ scalers = {}
    /\ insights = NoReport
    /\ saved = NoReport
    /\ error = "none"

\* the SWOT analysis, the departmental insights and the recommendations of
\* generate_comprehensive_insights, from the counts
InsightsFromCounts ==
    /\ program = "enhanced_counts" /\ pc = "insights"
    /\ LET n == analysis.total_employees
           distribution == analysis.swot_distribution
           percentages == swot_percentages(distribution, n)
           threats == Lookup(distribution, "Threat", 0)
           departmental ==
               [g \in {"Engineering"} |->
                  [swot_category |-> threats, Employee_ID |-> n,
                   threat_percentage |-> pct_round1(threats, n)]]
       IN  insights' = [status |-> "ok",
                        total_employees |-> n,
                        distribution |-> distribution,
                        percentages |-> percentages,
                        health_score |-> health_score(percentages),
                        departmental_insights |-> departmental,
                        recommendations |->
                            generate_recommendations(percentages, departmental)]
    /\ pc' = "done"
    /\ UNCHANGED <<program, df, columns, resigned_dtype, analysis, swot_thresholds,
                   swot_mapping, models, scalers, saved, error>>

SpecCounts == CountsInit /\ [][InsightsFromCounts]_vars

Init == ValidateInit \/ VerifyInit \/ EnhancedInit \/ BasicInit

Next ==
    \/ AnalyzeEmployee
    \/ DepartmentAverages
    \/ GenerateReport
    \/ ValidateSave
    \/ TestDataProcessing
    \/ TrainEnhancedClustering
    \/ TrainEnhancedAnomalyDetection
    \/ TrainEnhancedAttritionModel
    \/ GenerateComprehensiveInsights
    \/ SaveEnhancedModels
    \/ Recalibrate
    \/ TrainClusteringModel
    \/ TrainAnomalyDetection
    \/ TrainAttritionModel
    \/ SaveModels

Spec == Init /\ [][Next]_vars

(***************************************************************************)
(* Properties.                                                             *)
(***************************************************************************)
Categorized == "swot_category" \in columns

Rows == 1..Len(df)

SumCounts(dict) ==
    LET keys == DOMAIN dict
        F[S \in SUBSET keys] ==
            IF S = {} THEN 0
            ELSE LET k == CHOOSE x \in S : TRUE IN dict[k] + F[S \ {k}]
    IN  F[keys]

\* C1: every categorizer gives each record exactly one of the four labels.
\* Validator: the labels counted are among the four, and the counts (of the
\* run, and of each department) add up to the records processed, one label
\* each.  Pandas programs: every row of a categorized table holds one of the
\* four, and the cluster mapping of the basic trainer maps every cluster to
\* one of the four.
C1_ExactlyOneCategory ==
    /\ program = "validate" =>
          /\ DOMAIN analysis.swot_distribution \subseteq Categories
          /\ SumCounts(analysis.swot_distribution) = Processed
          /\ \A d \in DOMAIN analysis.department_analysis :
                LET e == analysis.department_analysis[d]
                IN  e.strengths + e.weaknesses + e.opportunities + e.threats = e.total
          /\ \A i \in 1..Len(analysis.high_risk_employees) :
                analysis.high_risk_employees[i].SWOT_Category \in Categories
    /\ (program \in {"verify", "enhanced", "basic"} /\ Categorized) =>
          \A i \in Rows : df[i].swot_category \in Categories
    /\ (program = "basic" /\ Categorized) =>
          /\ DOMAIN swot_mapping = 0..(NClusters - 1)
          /\ \A c \in DOMAIN swot_mapping : swot_mapping[c] \in Categories

C1_Witness ==
    /\ program = "enhanced" /\ Categorized
    /\ {df[i].swot_category : i \in Rows} = {"Strength", "Threat"}

\* the conditions of the percentile rules, on a row and the stored cutoffs
StrengthCond(row, t) ==
    /\ Ge(Quarters(row.productivity_score), t.productivity_75)
    /\ Ge(Quarters(row.engagement_score), t.engagement_75)
    /\ Le(Quarters(row.risk_score), t.risk_25)

ThreatCond(row, t) ==
    /\ Ge(Quarters(row.risk_score), t.risk_75)
    /\ \/ Le(Quarters(row.productivity_score), t.productivity_25)
       \/ Le(Quarters(row.engagement_score), t.engagement_25)

WeaknessCond(row, t) ==
    /\ Le(Quarters(row.productivity_score), t.productivity_25)
    /\ Le(Quarters(row.engagement_score), t.engagement_25)

\* C2: in the percentile categorizer a row with productivity >= the 75th
\* percentile, engagement >= the 75th percentile and risk <= the 25th
\* percentile is a Strength, whatever else holds of it.
C2_StrengthDominates ==
    (program = "enhanced" /\ Categorized) =>
        \A i \in Rows :
            StrengthCond(df[i], swot_thresholds) => df[i].swot_category = "Strength"

\* a Strength for which the Threat and the Weakness condition hold as well
C2_Witness ==
    /\ program = "enhanced" /\ Categorized
    /\ \E i \in Rows :
          /\ StrengthCond(df[i], swot_thresholds)
          /\ ThreatCond(df[i], swot_thresholds)
          /\ WeaknessCond(df[i], swot_thresholds)
          /\ df[i].swot_category = "Strength"

\* C3: the percentile rules are tried in the order Strength, Threat,
\* Weakness, Opportunity, the first match winning.
C3_PriorityOrder ==
    (program = "enhanced" /\ Categorized) =>
        \A i \in Rows :
            LET row == df[i]
                t == swot_thresholds
            IN  /\ (~StrengthCond(row, t) /\ ThreatCond(row, t))
                      => row.swot_category = "Threat"
                /\ (~StrengthCond(row, t) /\ ~ThreatCond(row, t) /\ WeaknessCond(row, t))
                      => row.swot_category = "Weakness"
                /\ (~StrengthCond(row, t) /\ ~ThreatCond(row, t) /\ ~WeaknessCond(row, t))
                      => row.swot_category = "Opportunity"

\* a Threat that meets the Weakness condition too, beside a Weakness
C3_Witness ==
    /\ program = "enhanced" /\ Categorized
    /\ \E i \in Rows :
          /\ ~StrengthCond(df[i], swot_thresholds)
          /\ ThreatCond(df[i], swot_thresholds)
          /\ WeaknessCond(df[i], swot_thresholds)
          /\ df[i].swot_category = "Threat"

\* the conditions of the fixed-cutoff rules, on a score triple in hundredths
FixedStrength(p, e, r) == p >= 350 /\ e >= 350 /\ r <= 200
FixedThreat(p, e, r) == p < 250 \/ e < 250 \/ r >= 400
FixedMidBand(p, e, r) == p >= 250 /\ p < 350 /\ e >= 250 /\ e < 350

\* the label the stated order gives a triple
FollowsFixedOrder(p, e, r, label) ==
    /\ FixedStrength(p, e, r) => label = "Strength"
    /\ (~FixedStrength(p, e, r) /\ FixedThreat(p, e, r)) => label = "Threat"
    /\ (~FixedStrength(p, e, r) /\ ~FixedThreat(p, e, r) /\ FixedMidBand(p, e, r))
          => label = "Weakness"
    /\ (~FixedStrength(p, e, r) /\ ~FixedThreat(p, e, r) /\ ~FixedMidBand(p, e, r))
          => label = "Opportunity"
    /\ (FixedMidBand(p, e, r) /\ r >= 400) => label = "Threat"

\* score triples on, just below and just above every cutoff
ScoreGrid == {0, 249, 250, 251, 349, 350, 351, 500}
RiskGrid == {0 - 100, 0, 199, 200, 201, 399, 400, 401, 500}

\* on the grid both categorizers follow the stated order and agree
GridAgrees ==
    \A p \in ScoreGrid, e \in ScoreGrid, r \in RiskGrid :
        /\ FollowsFixedOrder(p, e, r, assign_swot_category(p, e, r))
        /\ assign_swot_category(p, e, r)
              = verify_assign_swot([productivity_score |-> p,
                                    engagement_score |-> e, risk_score |-> r])

\* the labelled records the validator keeps (the two lists hold every
\* Threat, every record of risk 4 or more, and the strongest Strengths)
LabelledEntries ==
    {analysis.high_risk_employees[i] : i \in 1..Len(analysis.high_risk_employees)}
        \cup {analysis.top_performers[i] : i \in 1..Len(analysis.top_performers)}

\* C4: the fixed-cutoff rules are tried in the order Strength, Threat,
\* mid-band Weakness, Opportunity; a mid-band record of risk 4 or more is a
\* Threat; assign_swot_category and the verifier's assign_swot give the same
\* label on every score triple (on the grid around the cutoffs, and on every
\* record either program labels).
C4_FixedCutoffOrder ==
    /\ GridAgrees
    /\ program = "validate" =>
          \A x \in LabelledEntries :
             /\ FollowsFixedOrder(x.Productivity_Score, x.Engagement_Score,
                                  x.Risk_Score, x.SWOT_Category)
             /\ x.SWOT_Category
                   = verify_assign_swot([productivity_score |-> x.Productivity_Score,
                                         engagement_score |-> x.Engagement_Score,
                                         risk_score |-> x.Risk_Score])
    /\ (program = "verify" /\ Categorized) =>
          \A i \in Rows :
             /\ FollowsFixedOrder(df[i].productivity_score, df[i].engagement_score,
                                  df[i].risk_score, df[i].swot_category)
             /\ df[i].swot_category
                   = assign_swot_category(df[i].productivity_score,
                                          df[i].engagement_score, df[i].risk_score)

\* the validator has labelled a mid-band record of risk 4 or more a Threat
C4_Witness ==
    /\ program = "validate"
    /\ \E x \in LabelledEntries :
          /\ FixedMidBand(x.Productivity_Score, x.Engagement_Score, x.Risk_Score)
          /\ x.Risk_Score >= 400
          /\ x.SWOT_Category = "Threat"

\* C5: calibrating a table already calibrated changes neither the cutoffs
\* nor any label (nor anything else of the table).
C5_CalibrationIdempotent ==
    [][(pc = "done" /\ pc' = "recalibrated")
          => (swot_thresholds' = swot_thresholds /\ df' = df)]_vars

\* a table of two differently labelled rows has been calibrated again
C5_Witness ==
    /\ program = "enhanced" /\ pc = "recalibrated"
    /\ Len(df) >= 2
    /\ \E i, j \in Rows : df[i].swot_category # df[j].swot_category

\* analyze_employees has returned its analysis
AnalysisReturned == pc \in {"report", "save", "done"} /\ Processed = Len(df)

ThreatsKept(d) ==
    Cardinality({i \in 1..Len(analysis.high_risk_employees) :
                    /\ analysis.high_risk_employees[i].Department = d
                    /\ analysis.high_risk_employees[i].SWOT_Category = "Threat"})

\* the records of a department among those processed
RecordsOf(d) == Cardinality({i \in 1..Processed : df[i].Department = d})

\* the rows of a department in the table, and its Threat rows
RowsOf(g) == Cardinality({i \in Rows : df[i].Department = g})
ThreatRowsOf(g) ==
    Cardinality({i \in Rows : df[i].Department = g /\ df[i].swot_category = "Threat"})

IsScenario(e) ==
    /\ e.Performance_Score = 5 /\ e.Work_Hours_Per_Week = 40
    /\ e.Projects_Handled = 10 /\ e.Training_Hours = 50
    /\ e.Employee_Satisfaction_Score = 500 /\ e.Sick_Days = 0
    /\ e.defect = "none"

\* every scenario record scored so far has the productivity p (hundredths)
ScenarioScores(p) ==
    /\ program = "validate" =>
          \A i \in 1..Processed :
             IsScenario(df[i]) => analysis.score_distributions.productivity[i] = p
    /\ (program \in {"verify", "basic"} /\ "productivity_score" \in columns) =>
          \A i \in Rows : IsScenario(df[i]) => df[i].productivity_score = p

\* C8: under the basic formula the scenario record has productivity 2.33,
\* that is (5*2 + 1 + 1 + 1 - 0 + 1) / 6 = 14/6 rounded to two decimals, in
\* the validator, the verifier and the basic trainer.
C8_ScenarioProductivity == ScenarioScores(233)

\* C8 as stated: the scenario record has productivity 2.17
C8_AsStated == ScenarioScores(217)

\* the validator has scored a scenario record
C8_Witness ==
    /\ program = "validate" /\ Processed >= 1
    /\ IsScenario(df[1])
    /\ analysis.score_distributions.productivity[1] = 233

\* the classifier's target of row i, and whether the table holds fewer than
\* two classes of it
TargetOf(i) ==
    IF program = "enhanced" THEN enhanced_target(df[i].Resigned, resigned_dtype)
    ELSE basic_target(df[i].Resigned, resigned_dtype)

SingleClass == Cardinality({TargetOf(i) : i \in Rows}) < 2

AttritionStepDone ==
    \/ program = "enhanced" /\ pc \in {"insights", "save", "done", "recalibrated"}
    \/ program = "basic" /\ pc \in {"save", "done"}

AttritionFields == {"attrition_probability", "attrition_risk_level"}

C10_SkipNonFatal ==
    (program \in {"enhanced", "basic"} /\ Len(df) >= 1 /\ SingleClass) =>
        /\ error = "none"
        /\ pc \in {"insights", "save"}
              => ENABLED (GenerateComprehensiveInsights \/ SaveEnhancedModels
                          \/ SaveModels)
        /\ pc \in {"done", "recalibrated"} =>
              /\ insights.status = "ok"
              /\ saved # NoReport
        /\ (program = "enhanced" /\ pc \in {"done", "recalibrated"}) =>
              /\ {"model_config.json", "business_insights.json",
                  "enhanced_sample_data.csv"} \subseteq saved.files
              /\ saved.business_insights.status = "ok"
              /\ AttritionFields \cap saved.sample_columns = {}
              /\ insights.high_risk_count
                    = Cardinality({i \in Rows : \/ df[i].swot_category = "Threat"
                                                \/ df[i].anomaly_level = "High"})
        /\ (program = "basic" /\ pc = "done") =>
              /\ {"swot_mapping.json", "sample_processed_data.csv",
                  "model_insights.json"} \subseteq saved.files
              /\ insights.high_risk_employees = <<>>

\* the basic trainer has ended a run over a single-class table
C10_Witness ==
    /\ program = "basic" /\ pc = "done"
    /\ SingleClass
    /\ "logistic_regression" \notin models
    /\ "model_insights.json" \in saved.files

\* C11: every record one of whose source fields is absent or non-numeric
\* gets the neutral scores (0, 0, 0), and the loop of analyze_employees goes
\* on to the remaining records: the analysis ends with every record
\* processed and no exception of such a record has ended the run.
C11_DefectiveRecordNeutral ==
    program = "validate" =>
        /\ \A i \in 1..Processed :
              df[i].defect # "none" =>
                 /\ analysis.score_distributions.productivity[i] = 0
                 /\ analysis.score_distributions.engagement[i] = 0
                 /\ analysis.score_distributions.risk[i] = 0
        /\ pc # "analyze" => Processed = Len(df)
        /\ error \notin {"TypeError", "KeyError"}

\* C12: whichever representation the Resigned column has, the risk score of
\* a record is defined and holds the resignation penalty (5 basic, 2
\* enhanced) exactly when the employee resigned, and the classifier's target
\* is 1 exactly when the employee resigned.
C12_ResignedRepresentation ==
    /\ program = "enhanced" =>
          \A i \in Rows :
             /\ ~IsNaN(df[i].risk_score)
             /\ df[i].risk_score = enhanced_risk(df[i], IF df[i].Resigned THEN 2 ELSE 0)
             /\ TargetOf(i) = IF df[i].Resigned THEN 1 ELSE 0
    /\ program = "basic" =>
          \A i \in Rows :
             /\ ~IsNaN(df[i].risk_score)
             /\ df[i].risk_score = basic_risk(df[i], IF df[i].Resigned THEN 5 ELSE 0)
             /\ TargetOf(i) = IF df[i].Resigned THEN 1 ELSE 0
    /\ (program = "verify" /\ "risk_score" \in columns) =>
          \A i \in Rows :
             df[i].risk_score = basic_risk(df[i], IF df[i].Resigned THEN 5 ELSE 0)

\* the number of records of a category the insights were computed from
CountOf(c) ==
    IF program = "enhanced_counts" THEN Lookup(analysis.swot_distribution, c, 0)
    ELSE Cardinality({i \in Rows : df[i].swot_category = c})

Summarized == program \in {"enhanced", "enhanced_counts"} /\ insights.status = "ok"

\* a share of the records in tenths of a percent, rounded to one decimal
RoundedShare(c) == RoundHalfEven(1000 * CountOf(c), insights.total_employees)

HasCritical ==
    \E i \in 1..Len(insights.recommendations) :
        insights.recommendations[i].priority = "CRITICAL"

PriorityRank(r) == IF r.priority = "CRITICAL" THEN 0 ELSE 1

\* every record has the four fields, and the list is in priority order
WellFormedRecommendations ==
    LET recs == insights.recommendations
    IN  /\ \A i \in 1..Len(recs) :
              /\ DOMAIN recs[i] = {"priority", "category", "action", "expected_impact"}
              /\ recs[i].priority \in {"CRITICAL", "HIGH"}
        /\ \A i, j \in 1..Len(recs) :
              i < j => PriorityRank(recs[i]) <= PriorityRank(recs[j])
        /\ HasCritical => recs[1].priority = "CRITICAL"

\* C14: the recommendations hold a CRITICAL record exactly when the Threat
\* percentage, rounded to one decimal as the insights report it, is strictly
\* greater than 20 (none at 20.0); every record has the fields priority,
\* category, action and expected_impact, and the list is in priority order,
\* the CRITICAL record first.
C14_CriticalRecommendation ==
    Summarized =>
        /\ HasCritical <=> RoundedShare("Threat") > 200
        /\ WellFormedRecommendations

\* C14 as stated: the CRITICAL record is there exactly when the Threat share
\* of the population is strictly greater than 20 percent
C14_AsStated ==
    Summarized =>
        /\ HasCritical <=> 100 * CountOf("Threat") > 20 * insights.total_employees
        /\ WellFormedRecommendations

\* half of a large table are Threats: the CRITICAL record comes first, a
\* HIGH record after it
C14_Witness ==
    /\ program = "enhanced_counts" /\ insights.status = "ok"
    /\ CountOf("Threat") = 2000 /\ insights.total_employees = 4000
    /\ Len(insights.recommendations) >= 2
    /\ insights.recommendations[1].priority = "CRITICAL"
    /\ insights.recommendations[2].priority = "HIGH"

\* C15: in the enhanced trainer every derived score of every record lies in
\* its range and has at most two decimals: productivity, engagement, risk
\* and work_life_balance in [0, 5] (hundredths), tenure_factor in [0, 3] and
\* a whole number of hundredths (it is kept in ten-thousandths).
C15_ClippedAndRounded ==
    program = "enhanced" =>
        \A i \in Rows :
            /\ \A f \in {"productivity_score", "engagement_score", "risk_score",
                         "work_life_balance_score"} :
                  /\ ~IsNaN(df[i][f])
                  /\ df[i][f] >= 0 /\ df[i][f] <= 500
            /\ df[i].tenure_factor >= 0 /\ df[i].tenure_factor <= 30000
            /\ df[i].tenure_factor % 100 = 0

\* the five tiers in their order
TierRank(level) ==
    CASE level = "Very Low" -> 1
      [] level = "Low" -> 2
      [] level = "Medium" -> 3
      [] level = "High" -> 4
      [] level = "Very High" -> 5
      [] OTHER -> 0

\* the tier the cutoffs 0.1, 0.3, 0.5, 0.7 give a probability in percent,
\* a cutoff belonging to the tier below it
TierOf(x) ==
    IF x <= 10 THEN "Very Low" ELSE IF x <= 30 THEN "Low"
    ELSE IF x <= 50 THEN "Medium" ELSE IF x <= 70 THEN "High" ELSE "Very High"

\* C16: every probability in [0, 1] gets exactly one of the five tiers, by
\* the cutoffs 0.1, 0.3, 0.5, 0.7; a higher probability never gets a lower
\* tier; pd.cut of the enhanced trainer and the chained comparisons of the
\* basic trainer give the same tier, the boundary values included.
C16_RiskTiers ==
    /\ (program = "tiers" /\ pc = "done") =>
          \A i \in Rows :
             /\ TierRank(df[i].enhanced_level) \in 1..5
             /\ df[i].enhanced_level = df[i].basic_level
             /\ df[i].enhanced_level = TierOf(df[i].attrition_probability)
             /\ \A y \in ProbabilityGrid :
                   y <= df[i].attrition_probability =>
                      /\ TierRank(enhanced_risk_level(y)) <= TierRank(df[i].enhanced_level)
                      /\ TierRank(basic_risk_level(y)) <= TierRank(df[i].basic_level)
    /\ (program \in {"enhanced", "basic"} /\ "attrition_risk_level" \in columns) =>
          \A i \in Rows :
             /\ df[i].attrition_risk_level = TierOf(df[i].attrition_probability)
             /\ df[i].attrition_risk_level
                   = enhanced_risk_level(df[i].attrition_probability)
             /\ df[i].attrition_risk_level
                   = basic_risk_level(df[i].attrition_probability)

\* the cutoff 0.7 itself has got the tier High from both
C16_Witness ==
    /\ program = "tiers" /\ pc = "done"
    /\ df[1].attrition_probability = 70
    /\ df[1].enhanced_level = "High" /\ df[1].basic_level = "High"

\* severity, the higher the more severe
SeverityRank(level) ==
    CASE level = "Low" -> 1 [] level = "Medium" -> 2 [] level = "High" -> 3
      [] OTHER -> 0

\* the anomaly score of row i is at most the percentile k/den of the
\* table's anomaly scores
AtMostPercentile(i, k, den) ==
    den * df[i].anomaly_score <= quantile_at(Column(df, "anomaly_score"), k, den)

\* C17: after anomaly detection every record has one level of Low, Medium,
\* High: High when its score is at most the 10th percentile of the scores,
\* Medium when it is above the 10th and at most the 25th, Low otherwise; of
\* two records the one with the lower score has no less severe a level.
C17_AnomalySeverity ==
    (program \in {"anomaly_levels", "enhanced"} /\ "anomaly_level" \in columns) =>
        /\ \A i \in Rows :
              /\ SeverityRank(df[i].anomaly_level) \in 1..3
              /\ df[i].anomaly_level = "High" <=> AtMostPercentile(i, 1, 10)
              /\ df[i].anomaly_level = "Medium"
                    <=> (~AtMostPercentile(i, 1, 10) /\ AtMostPercentile(i, 1, 4))
              /\ df[i].anomaly_level = "Low" <=> ~AtMostPercentile(i, 1, 4)
        /\ \A i, j \in Rows :
              df[i].anomaly_score <= df[j].anomaly_score
                 => SeverityRank(df[i].anomaly_level) >= SeverityRank(df[j].anomaly_level)

\* a table with the three levels
C17_Witness ==
    /\ program = "anomaly_levels" /\ pc = "done"
    /\ {df[i].anomaly_level : i \in Rows} = {"Low", "Medium", "High"}

\* no record of flagged that is missing from listed (by Employee_ID) has a
\* strictly higher value of field than a record of listed
NoneHigherLeftOut(flagged, listed, field) ==
    \A i \in 1..Len(flagged) : \A j \in 1..Len(listed) :
        (\A k \in 1..Len(listed) : listed[k].Employee_ID # flagged[i].Employee_ID)
            => flagged[i][field] <= listed[j][field]

\* the flagged rows of the basic trainer's table
FlaggedRows ==
    SelectSeq(df, LAMBDA r : r.swot_category = "Threat"
                             \/ r.attrition_risk_level \in {"Very High", "High"})

\* C18: the high-risk list of each report generator holds the top-N
\* highest-risk records among the flagged ones (N = 10 in the text report,
\* N = 20 in the basic insights document): at most N entries, and no flagged
\* record left out has a strictly higher risk score than one in the list.
C18_TopNHighestRisk ==
    /\ (program = "validate" /\ insights.status = "ok") =>
          /\ Len(insights.high_risk) <= 10
          /\ NoneHigherLeftOut(analysis.high_risk_employees, insights.high_risk,
                               "Risk_Score")
    /\ (program = "basic" /\ pc = "done" /\ insights.status = "ok"
          /\ "attrition_risk_level" \in columns) =>
          /\ Len(insights.high_risk_employees) <= 20
          /\ NoneHigherLeftOut(FlaggedRows, insights.high_risk_employees,
                               "risk_score")

\* the text report alone: its list is sorted by risk before it is cut
ReportListIsTopN ==
    (program = "validate" /\ insights.status = "ok") =>
        /\ Len(insights.high_risk) <= 10
        /\ NoneHigherLeftOut(analysis.high_risk_employees, insights.high_risk,
                             "Risk_Score")

ThresholdKeys == {"productivity_75", "productivity_25", "engagement_75",
                  "engagement_25", "risk_75", "risk_25"}

\* C19: a categorization pass compares every record of the table against
\* one set of six cutoffs, the quantiles of the table as it is when the pass
\* starts; swot_thresholds afterwards holds those cutoffs, whatever it held
\* before: a pass on new data replaces all six values of an earlier pass.
C19_ThresholdsSnapshot ==
    [][(program = "enhanced" /\ pc = "clustering" /\ pc' = "anomaly") =>
          /\ swot_thresholds' = calibrate(df)
          /\ DOMAIN swot_thresholds' = ThresholdKeys
          /\ \A i \in 1..Len(df) :
                df'[i].swot_category = assign_swot(df[i], swot_thresholds')]_vars

\* new data are loaded after a pass, and each of the six cutoffs the pass
\* stored differs from the cutoff of the new table
C19_Witness ==
    /\ program = "enhanced" /\ pc = "clustering"
    /\ swot_thresholds # NoThresholds
    /\ Len(df) >= 2
    /\ \A k \in ThresholdKeys :
          /\ ~IsNaN(swot_thresholds[k]) /\ ~IsNaN(calibrate(df)[k])
          /\ swot_thresholds[k] # calibrate(df)[k]

\* C20: over a population of zero records, analyze_employees followed by
\* generate_report, and generate_comprehensive_insights, complete without a
\* division-by-zero or empty-statistics error and report 0 for the counts.
C20_EmptyPopulationSummary ==
    /\ (program = "validate" /\ Len(df) = 0 /\ pc \in {"save", "done"}) =>
          /\ error = "none"
          /\ insights.status = "ok"
          /\ analysis.total_employees = 0
          /\ insights.high_risk = <<>>
    /\ (program = "enhanced" /\ Len(df) = 0 /\ pc \in {"save", "done", "recalibrated"}) =>
          /\ error = "none"
          /\ insights.status = "ok"

\* the rows of a cluster
ClusterRows(c) == SelectSeq(df, LAMBDA r : r.cluster = c)

\* the cluster's mean productivity and mean engagement are below the
\* population means and its mean risk is above the population mean
LowAndRisky(c) ==
    /\ MeanLt(Column(ClusterRows(c), "productivity_score"),
              Column(df, "productivity_score"))
    /\ MeanLt(Column(ClusterRows(c), "engagement_score"),
              Column(df, "engagement_score"))
    /\ MeanGt(Column(ClusterRows(c), "risk_score"), Column(df, "risk_score"))

\* C21: the cluster-based categorization of the basic pipeline tries
\* Strength, then Threat, then Weakness, then Opportunity: a cluster whose
\* mean productivity and mean engagement are below the population means and
\* whose mean risk is above the population mean is labelled Threat.
C21_ClusterPriorityOrder ==
    (program = "basic" /\ pc \in {"anomaly", "attrition"}) =>
        \A c \in 0..(NClusters - 1) : LowAndRisky(c) => swot_mapping[c] = "Threat"

Counters == {"strengths", "weaknesses", "opportunities", "threats"}

\* a department's entry, the factory's when the department has none
EntryOf(a, d) == Lookup(a.department_analysis, d, NewDepartment)

\* the counts of the analysis add up to the records processed
CountsConserved ==
    program = "validate" =>
        /\ \A d \in DOMAIN analysis.department_analysis :
              LET e == analysis.department_analysis[d]
              IN  e.total = e.strengths + e.weaknesses + e.opportunities + e.threats
        /\ SumCounts([d \in DOMAIN analysis.department_analysis |->
                         analysis.department_analysis[d].total]) = Processed
        /\ SumCounts(analysis.swot_distribution) = Processed

\* from one analysis to the next, one counter of one department, and that
\* department's total, have grown by one and no other count has changed
OneCounterOfOneDepartment(a, b) ==
    \E d \in Departments : \E k \in Counters :
        \A d2 \in Departments : \A f \in Counters \cup {"total"} :
            EntryOf(b, d2)[f]
               = EntryOf(a, d2)[f] + (IF d2 = d /\ f \in {k, "total"} THEN 1 ELSE 0)

\* C22: in analyze_employees, after each processed record every
\* department's total is the sum of its four category counts, the department
\* totals add up to the number of records processed and so do the counts of
\* swot_distribution; each record increments exactly one category counter of
\* exactly one department.
C22_CountConservation ==
    /\ []CountsConserved
    /\ [][(program = "validate" /\ Processed' = Processed + 1)
             => OneCounterOfOneDepartment(analysis, analysis')]_vars

\* two records of different categories and departments have been counted
C22_Witness ==
    /\ program = "validate" /\ Processed = 2
    /\ DOMAIN analysis.department_analysis = Departments
    /\ Cardinality(DOMAIN analysis.swot_distribution) = 2
    /\ "Opportunity" \in DOMAIN analysis.swot_distribution

\* on the grid, a risk of at least 4 makes a record a Threat
HighRiskIsThreat ==
    \A p \in ScoreGrid, e \in ScoreGrid, r \in RiskGrid :
        r >= 400 => assign_swot_category(p, e, r) = "Threat"

\* the Employee_IDs of the processed records categorized Threat, in order
ThreatIds ==
    LET ids == [i \in 1..Processed |-> df[i].Employee_ID]
    IN  SelectSeq(ids, LAMBDA id :
           LET s == calculate_scores(df[id])
           IN  assign_swot_category(s.productivity, s.engagement, s.risk) = "Threat")

\* C23: in analyze_employees the records added to high_risk_employees are
\* exactly the records categorized Threat (a risk of at least 4 adds no
\* record of another category), so the length of high_risk_employees is
\* swot_distribution['Threat'].
C23_HighRiskIsThreatSet ==
    program = "validate" =>
        /\ HighRiskIsThreat
        /\ [i \in 1..Len(analysis.high_risk_employees) |->
               analysis.high_risk_employees[i].Employee_ID] = ThreatIds
        /\ \A i \in 1..Len(analysis.high_risk_employees) :
               analysis.high_risk_employees[i].SWOT_Category = "Threat"
        /\ Len(analysis.high_risk_employees)
              = Lookup(analysis.swot_distribution, "Threat", 0)

\* a record of risk 4.00 with both scores in the middle band is in the list,
\* and a record that is no Threat has been processed
C23_Witness ==
    /\ program = "validate" /\ Processed = 2
    /\ \E i \in 1..Len(analysis.high_risk_employees) :
          /\ analysis.high_risk_employees[i].Risk_Score >= 400
          /\ analysis.high_risk_employees[i].Productivity_Score >= 250
          /\ analysis.high_risk_employees[i].Engagement_Score >= 250
    /\ Len(analysis.high_risk_employees) = 1

\* the defects calculate_scores answers with the neutral scores (0, 0, 0)
NeutralDefects == {"nonnumeric", "absent_key", "absent_key_performance"}

\* analyze_employees is over and no record made float() raise a TypeError
LoopOver ==
    /\ program = "validate"
    /\ pc \in {"report", "save", "done"}
    /\ \A j \in Rows : df[j].defect # "absent_value"

\* record i is in the high-risk list as a Threat with the neutral scores,
\* and its department's entry counts it among its threats
CountedAsThreat(i) ==
    /\ \E k \in 1..Len(analysis.high_risk_employees) :
          LET x == analysis.high_risk_employees[k]
          IN  /\ x.Employee_ID = df[i].Employee_ID
              /\ x.SWOT_Category = "Threat"
              /\ x.Productivity_Score = 0 /\ x.Engagement_Score = 0
              /\ x.Risk_Score = 0
    /\ df[i].Department \in DOMAIN analysis.department_analysis
    /\ LET e == analysis.department_analysis[df[i].Department]
       IN  /\ e.threats
                 >= Cardinality({j \in Rows : /\ df[j].Department = df[i].Department
                                               /\ df[j].defect \in NeutralDefects})
           /\ "threat_percentage" \in DOMAIN e
           /\ e.threat_percentage = threat_percentage(e.threats, e.total)
           /\ e.threat_percentage > 0

\* C24: a record whose scores were replaced by the neutral (0, 0, 0) after a
\* data error is categorized Threat, is counted in its department's threat
\* tally and threat_percentage and is added to the high-risk list.
C24_NeutralRecordIsThreat ==
    LoopOver => \A i \in Rows : df[i].defect \in NeutralDefects => CountedAsThreat(i)

\* the same for the records whose defect leaves Performance_Score readable
NeutralRecordWithPerformance ==
    (LoopOver /\ \A j \in Rows : df[j].defect # "absent_key_performance")
        => \A i \in Rows : df[i].defect \in NeutralDefects => CountedAsThreat(i)

\* the name a training stage registers its model and its scaler under
StageName(stage) ==
    CASE stage = "clustering" -> "kmeans"
      [] stage = "anomaly" -> "isolation_forest"
      [] stage = "attrition" -> "logistic_regression"
      [] OTHER -> "none"

\* the registries after the stages run so far
RegistryConsistent ==
    program \in {"enhanced", "basic"} =>
        /\ models = scalers
        /\ models \subseteq {"kmeans", "isolation_forest", "logistic_regression"}
        /\ AttritionStepDone =>
              /\ {"kmeans", "isolation_forest"} \subseteq models
              /\ "logistic_regression" \in models <=> ~SingleClass

\* C25: after any prefix of the training stages of either trainer the keys
\* of models are the keys of scalers; after the three stages they hold
\* kmeans and isolation_forest, and logistic_regression exactly when the
\* resignation target has two classes; a stage registers its name once, when
\* the name is not registered yet, and registers no other name.
C25_RegistryConsistency ==
    /\ []RegistryConsistent
    /\ [][(program \in {"enhanced", "basic"} /\ StageName(pc) # "none" /\ pc' # pc)
             => /\ StageName(pc) \notin models
                /\ StageName(pc) \notin scalers
                /\ models \subseteq models'
                /\ models' \subseteq models \cup {StageName(pc)}]_vars

\* the basic trainer has ended a run over a two-class target with the three names
C25_Witness ==
    /\ program = "basic" /\ pc = "done"
    /\ ~SingleClass
    /\ models = {"kmeans", "isolation_forest", "logistic_regression"}
    /\ scalers = models

\* the table has the columns of a set, on every row
Produced(fields) ==
    /\ fields \subseteq columns
    /\ \A i \in Rows : fields \subseteq DOMAIN df[i]

\* what the stages run so far have produced, by the position of
\* run_complete_analysis
StagesInOrder ==
    program = "enhanced" =>
        /\ Produced(FeatureColumns)
        /\ pc \in {"anomaly", "attrition", "insights", "save", "done", "recalibrated"}
              => Produced({"swot_category"}) /\ swot_thresholds # NoThresholds
        /\ pc \in {"attrition", "insights", "save", "done", "recalibrated"}
              => Produced({"anomaly_level", "outlier"})
        /\ pc \in {"clustering", "anomaly", "attrition"}
              => insights = NoReport /\ saved = NoReport
        /\ saved # NoReport
              => /\ insights.status = "ok"
                 /\ saved.business_insights = insights
                 /\ saved.config = swot_thresholds
        /\ (pc \in {"done", "recalibrated"} /\ error = "none") => saved # NoReport

\* C26: in every run of run_complete_analysis the features are derived
\* before the categorization, and the categorization (swot_category,
\* swot_thresholds) and the anomaly detection (anomaly_level, outlier) are
\* done before generate_comprehensive_insights and save_enhanced_models are
\* called; the two calls of generate_comprehensive_insights of a run, which
\* leave the table as it is, give the same content.
C26_StageOrdering ==
    /\ []StagesInOrder
    /\ [][(program = "enhanced" /\ pc \in {"insights", "save"})
             => (df' = df /\ columns' = columns)]_vars

\* a run has ended with its insights saved, over differently labelled rows
C26_Witness ==
    /\ program = "enhanced" /\ pc = "done" /\ error = "none"
    /\ saved # NoReport
    /\ saved.business_insights.status = "ok"
    /\ Cardinality(DOMAIN saved.business_insights.distribution) = 2

\* the stored cutoffs are ordered, and with strictly ordered risk cutoffs no
\* row meets both the Strength and the Threat condition
CutoffsOrdered ==
    LET t == swot_thresholds
    IN  /\ Le(t.productivity_25, t.productivity_75)
        /\ Le(t.engagement_25, t.engagement_75)
        /\ Le(t.risk_25, t.risk_75)
        /\ Lt(t.risk_25, t.risk_75)
              => \A i \in Rows : ~(StrengthCond(df[i], t) /\ ThreatCond(df[i], t))

\* C27: for every population the calibrated cutoffs are ordered (25th
\* percentile <= 75th percentile for productivity, engagement and risk), and
\* whenever risk_25 < risk_75 no record satisfies both the Strength and the
\* Threat condition.
C27_CutoffsOrdered ==
    (program = "enhanced" /\ swot_thresholds # NoThresholds) => CutoffsOrdered

\* the same for the populations all of whose cutoffs are numbers
OrderedWhenDefined ==
    (program = "enhanced" /\ swot_thresholds # NoThresholds
        /\ \A k \in ThresholdKeys : ~IsNaN(swot_thresholds[k])) => CutoffsOrdered
=============================================================================
